---------------------------- MODULE Spec2Model ----------------------------
(***************************************************************************)
(* A model of diplomacy-shared-utils (src/utils.js): the order classes,    *)
(* their export/import wire form, and the order generation of GameData     *)
(* (adjacency, convoy pathfinding, valid orders with the per-province      *)
(* cache, retreats, builds, fleets_required) and the country groups.       *)
(***************************************************************************)
EXTENDS Integers, Sequences, FiniteSets, TLC

VARIABLES
  mapInfo,     \* GameData.mapInfo: routes, provinces, countries, playerConfigurations
  history,     \* GameData.history: sequence of turn states
  orderCache,  \* GameData.orderCache: province id -> sequence of orders
  users,       \* GameData.users: the seated users
  phase,       \* GameData.phase: a code of phaseEnum
  playableCountryGroups,  \* the value the getter caches on the object
  input,       \* the arguments the caller is about to pass, drawn at the start
  call         \* the operation last called, its arguments and what it returned

vars == <<mapInfo, history, orderCache, users, phase, playableCountryGroups, input, call>>

-----------------------------------------------------------------------------
(* Enumerations (src/utils.js 17-87) *)

unitTypeEnum == [Army |-> 0, Fleet |-> 1]

phaseEnum ==
  ("Country Claiming" :> -1) @@ ("Order Writing" :> 0) @@ ("Retreating" :> 1)
  @@ ("Creating/Disbanding" :> 2) @@ ("Finished" :> 3)

orderTypeEnum ==
  [cancel |-> -1, hold |-> 0, move |-> 1, convoy |-> 4, retreat |-> 5,
   disband |-> 6, build |-> 7, pass |-> 8]
  @@ ("support hold" :> 2) @@ ("support move" :> 3)

orderResultEnum == [unprocessed |-> 0, fail |-> 1, success |-> 2, dislodged |-> 3]

-----------------------------------------------------------------------------
(* Helpers standing for JavaScript built-ins *)

\* Array.prototype.includes
Includes(seq, x) == \E i \in 1..Len(seq) : seq[i] = x

\* Array.prototype.indexOf, 1-based; 0 when absent
IndexOf(seq, x) ==
  IF Includes(seq, x) THEN CHOOSE i \in 1..Len(seq) :
                             seq[i] = x /\ \A j \in 1..(i-1) : seq[j] # x
                      ELSE 0

\* the elements of an array, as a set
Range(seq) == {seq[i] : i \in 1..Len(seq)}

-----------------------------------------------------------------------------
(* The order classes (src/utils.js 197-542).  An order is a record holding *)
(* the fields its constructor assigns.                                     *)

Order(type, province, id, result) ==
  [type |-> type, province |-> province, id |-> id,
   result |-> IF result # 0 THEN result ELSE orderResultEnum.unprocessed]

CancelOrder(province) ==
  Order(orderTypeEnum.cancel, province, "cancel-" \o province, 0)

HoldOrder(province, result) ==
  Order(orderTypeEnum.hold, province, "hold-" \o province, result)

MoveOrder(province, dest, coast, isConvoy, result) ==
  [dest |-> dest, coast |-> coast, isConvoy |-> isConvoy]
  @@ Order(orderTypeEnum.move, province,
           "move-" \o province \o "-" \o dest \o "-" \o coast
             \o (IF isConvoy THEN "-convoy" ELSE ""),
           result)

ConvoyOrder(province, start, end, result) ==
  [start |-> start, end |-> end]
  @@ Order(orderTypeEnum.convoy, province,
           "convoy-" \o province \o "-" \o start \o "-" \o end, result)

SupportHoldOrder(province, supporting, result) ==
  [supporting |-> supporting]
  @@ Order(orderTypeEnum["support hold"], province,
           "support-" \o province \o "-" \o supporting, result)

SupportMoveOrder(province, supporting, from, result) ==
  [supporting |-> supporting, from |-> from]
  @@ Order(orderTypeEnum["support move"], province,
           "support-" \o province \o "-" \o from \o "-" \o supporting, result)

RetreatOrder(province, dest, coast, result) ==
  [dest |-> dest, coast |-> coast]
  @@ Order(orderTypeEnum.retreat, province,
           "retreat-" \o province \o "-" \o dest \o "-" \o coast, result)

BuildOrder(country, province, unitType, coast) ==
  [unitType |-> unitType, coast |-> coast, country |-> country]
  @@ Order(orderTypeEnum.build, province,
           "build-" \o province \o "-" \o ToString(unitType) \o "-" \o coast, 0)

DisbandOrder(country, province) ==
  [country |-> country]
  @@ Order(orderTypeEnum.disband, province, "disband-" \o province, 0)

PassOrder(country) ==
  [country |-> country] @@ Order(orderTypeEnum.pass, "", "pass", 0)

\* Order.equals
OrderEquals(a, b) == a.id = b.id

\* a variant that exports every order as unprocessed
OrderExport_Unprocessed(o) ==
  [type |-> o.type, unit |-> o.province, result |-> orderResultEnum.unprocessed]

\* Order.export, the method of the base class
OrderExport(o) == [type |-> o.type, unit |-> o.province, result |-> o.result]

\* export() as dispatched on the class of the order
Export(o) ==
  CASE o.type = orderTypeEnum.move ->
         [province |-> o.dest, coast |-> o.coast, isconvoy |-> o.isConvoy]
         @@ OrderExport(o)
    [] o.type = orderTypeEnum.convoy ->
         [start |-> o.start, end |-> o.end] @@ OrderExport(o)
    [] o.type = orderTypeEnum["support hold"] ->
         [supporting |-> o.supporting] @@ OrderExport(o)
    [] o.type = orderTypeEnum["support move"] ->
         [supporting |-> o.supporting, from |-> o.from] @@ OrderExport(o)
    [] o.type = orderTypeEnum.retreat ->
         [dest |-> o.dest, coast |-> o.coast] @@ OrderExport(o)
    [] o.type = orderTypeEnum.build ->
         [type |-> o.type, province |-> o.province, unitType |-> o.unitType,
          coast |-> o.coast, country |-> o.country]
    [] o.type = orderTypeEnum.disband ->
         [type |-> o.type, unit |-> o.province, country |-> o.country]
    [] o.type = orderTypeEnum.pass ->
         [type |-> o.type, country |-> o.country]
    [] OTHER -> OrderExport(o)

-----------------------------------------------------------------------------
(* import_order (src/utils.js 549-594).  The result is [ok |-> TRUE,        *)
(* order |-> o] for a returned order and [ok |-> FALSE, error |-> message]  *)
(* for a thrown Error.                                                      *)

Thrown(message) == [ok |-> FALSE, error |-> message]
Returned(o) == [ok |-> TRUE, order |-> o]

\* imported.type, where a record without the key reads as undefined
TypeText(imported) ==
  IF "type" \in DOMAIN imported THEN ToString(imported.type) ELSE "undefined"

\* a variant that asks a result of a Cancel record as of the other unit orders
RequiredKeys_CancelResult(type) ==
  CASE type = orderTypeEnum.cancel -> <<"unit", "result">>
    [] type = orderTypeEnum.hold -> <<"unit", "result">>
    [] type = orderTypeEnum.move -> <<"unit", "result", "province">>
    [] type = orderTypeEnum.convoy -> <<"unit", "result", "start", "end">>
    [] type = orderTypeEnum["support hold"] -> <<"unit", "result", "supporting">>
    [] type = orderTypeEnum["support move"] -> <<"unit", "result", "supporting", "from">>
    [] type = orderTypeEnum.retreat -> <<"unit", "result", "dest", "coast">>
    [] type = orderTypeEnum.build -> <<"country", "province", "unitType", "coast">>
    [] type = orderTypeEnum.disband -> <<"country", "province">>
    [] type = orderTypeEnum.pass -> <<"country">>
    [] OTHER -> <<>>

\* the keys each kind requires, in the order requireKeys checks them
RequiredKeys(type) ==
  CASE type = orderTypeEnum.cancel -> <<"unit">>
    [] type = orderTypeEnum.hold -> <<"unit", "result">>
    [] type = orderTypeEnum.move -> <<"unit", "result", "province">>
    [] type = orderTypeEnum.convoy -> <<"unit", "result", "start", "end">>
    [] type = orderTypeEnum["support hold"] -> <<"unit", "result", "supporting">>
    [] type = orderTypeEnum["support move"] -> <<"unit", "result", "supporting", "from">>
    [] type = orderTypeEnum.retreat -> <<"unit", "result", "dest", "coast">>
    [] type = orderTypeEnum.build -> <<"country", "province", "unitType", "coast">>
    [] type = orderTypeEnum.disband -> <<"country", "province">>
    [] type = orderTypeEnum.pass -> <<"country">>
    [] OTHER -> <<>>

\* the constructor call of each case of the switch
ImportConstruct(imported) ==
  LET t == imported.type
      keys == DOMAIN imported
  IN CASE t = orderTypeEnum.cancel -> CancelOrder(imported.unit)
       [] t = orderTypeEnum.hold -> HoldOrder(imported.unit, imported.result)
       [] t = orderTypeEnum.move ->
            MoveOrder(imported.unit, imported.province,
                      IF "coast" \in keys THEN imported.coast ELSE "",
                      "isconvoy" \in keys /\ imported.isconvoy,
                      imported.result)
       [] t = orderTypeEnum.convoy ->
            ConvoyOrder(imported.unit, imported.start, imported.end, imported.result)
       [] t = orderTypeEnum["support hold"] ->
            SupportHoldOrder(imported.unit, imported.supporting, imported.result)
       [] t = orderTypeEnum["support move"] ->
            SupportMoveOrder(imported.unit, imported.supporting, imported.from,
                             imported.result)
       [] t = orderTypeEnum.retreat ->
            RetreatOrder(imported.unit, imported.dest, imported.coast, imported.result)
       [] t = orderTypeEnum.build ->
            BuildOrder(imported.country, imported.province, imported.unitType,
                       imported.coast)
       [] t = orderTypeEnum.disband ->
            DisbandOrder(imported.country, imported.province)
       [] t = orderTypeEnum.pass -> PassOrder(imported.country)

import_order(imported) ==
  LET keys == DOMAIN imported
      known == "type" \in keys
               /\ imported.type \in {orderTypeEnum[k] : k \in DOMAIN orderTypeEnum}
      required == IF known THEN RequiredKeys(imported.type) ELSE <<>>
      missing == SelectSeq(required, LAMBDA key : key \notin keys)
  IN IF ~known
       THEN Thrown(TypeText(imported) \o " is not a valid order type.")
     ELSE IF missing # <<>>
       THEN Thrown("Order of type " \o TypeText(imported)
                   \o " must include property " \o Head(missing) \o ".")
     ELSE Returned(ImportConstruct(imported))

-----------------------------------------------------------------------------
(* GameData: the map graph and the current turn state (src/utils.js        *)
(* 599-645, 973-1193).  The operators read the variables mapInfo and       *)
(* history as the methods read this.mapInfo and this.history.              *)

\* the value null
Null == [null |-> TRUE]

\* get state()
state == history[Len(history)]

\* every unit of the current state, nation by nation (the order in which the
\* loops over state.nations and their units visit them)
RECURSIVE UnitsOf(_)
UnitsOf(nations) ==
  IF nations = <<>> THEN <<>> ELSE Head(nations).units \o UnitsOf(Tail(nations))

AllUnits == UnitsOf(state.nations)

get_province(id) ==
  LET found == SelectSeq(mapInfo.provinces, LAMBDA province : province.id = id)
  IN IF found = <<>> THEN Null ELSE Head(found)

\* a variant that finds armies only
get_unit_ArmiesOnly(province) ==
  LET found == SelectSeq(AllUnits, LAMBDA unit :
                 unit.province = province /\ unit.type = unitTypeEnum.Army)
  IN IF found = <<>> THEN Null ELSE Head(found)

get_unit(province) ==
  LET found == SelectSeq(AllUnits, LAMBDA unit : unit.province = province)
  IN IF found = <<>> THEN Null ELSE Head(found)

\* a variant that knows a route only from its first end
route_other_end_ignore_coasts_OneWay(route, province) ==
  IF route.p0 = province THEN [province |-> route.p1, coast |-> route.c1]
  ELSE Null

route_other_end_ignore_coasts(route, province) ==
  IF route.p0 = province THEN [province |-> route.p1, coast |-> route.c1]
  ELSE IF route.p1 = province THEN [province |-> route.p0, coast |-> route.c0]
  ELSE Null

\* a variant that knows a route only from its first end
route_other_end_OneWay(route, province, coast) ==
  IF route.p0 = province /\ route.c0 = coast
    THEN [province |-> route.p1, coast |-> route.c1]
  ELSE Null

route_other_end(route, province, coast) ==
  IF route.p0 = province /\ route.c0 = coast
    THEN [province |-> route.p1, coast |-> route.c1]
  ELSE IF route.p1 = province /\ route.c1 = coast
    THEN [province |-> route.p0, coast |-> route.c0]
  ELSE Null

RECURSIVE AdjacenciesLoop(_, _, _)
AdjacenciesLoop(routes, province, coast) ==
  IF routes = <<>> THEN <<>>
  ELSE LET otherSide == route_other_end(Head(routes), province, coast)
       IN (IF otherSide # Null THEN <<otherSide>> ELSE <<>>)
          \o AdjacenciesLoop(Tail(routes), province, coast)

get_adjacencies(province, coast) ==
  AdjacenciesLoop(mapInfo.routes, province, coast)

RECURSIVE AdjacenciesIgnoreCoastsLoop(_, _, _)
AdjacenciesIgnoreCoastsLoop(routes, province, ret) ==
  IF routes = <<>> THEN ret
  ELSE LET otherSide == route_other_end_ignore_coasts(Head(routes), province)
       IN AdjacenciesIgnoreCoastsLoop(
            Tail(routes), province,
            IF otherSide # Null /\ ~Includes(ret, otherSide.province)
              THEN Append(ret, otherSide.province) ELSE ret)

get_adjacencies_ignore_coasts(province) ==
  AdjacenciesIgnoreCoastsLoop(mapInfo.routes, province, <<>>)

is_adjacent_ignore_coasts(p0, p1) ==
  \E i \in 1..Len(mapInfo.routes) :
    LET otherSide == route_other_end_ignore_coasts(mapInfo.routes[i], p0)
    IN otherSide # Null /\ otherSide.province = p1

is_adjacent(p0, p1) ==
  \E i \in 1..Len(mapInfo.routes) :
    LET otherSide == route_other_end(mapInfo.routes[i], p0.province, p0.coast)
    IN otherSide # Null /\ otherSide.province = p1.province
                        /\ otherSide.coast = p1.coast

-----------------------------------------------------------------------------
(* convoy_pathfind (src/utils.js 923-940).  The array ignore is shared     *)
(* with the recursive calls, so the operator returns it beside ret.  A     *)
(* call nested deeper than StackLimit ends the whole computation with      *)
(* overflow set, as the engine's RangeError does.                          *)

StackLimit == 24

Overflowed == [ret |-> <<>>, ignore |-> <<>>, overflow |-> TRUE]

RECURSIVE convoy_pathfind(_, _, _)
RECURSIVE ConvoyLoop(_, _, _, _, _)

\* a variant that records the land neighbours of a land province too
ConvoyLoop_AnyStart(start_province, adjs, ret, ignore, depth) ==
  IF adjs = <<>> THEN [ret |-> ret, ignore |-> ignore, overflow |-> FALSE]
  ELSE
    LET adj == Head(adjs)
        adjprov == get_province(adj)
    IN IF ~Includes(ignore, adj)
         THEN IF ~adjprov.water
                THEN ConvoyLoop(start_province, Tail(adjs), Append(ret, adj),
                                Append(ignore, adj), depth)
              ELSE IF get_unit(adj) # Null
                THEN LET recursed == convoy_pathfind(adjprov, ignore, depth + 1)
                     IN IF recursed.overflow THEN Overflowed
                        ELSE ConvoyLoop(start_province, Tail(adjs),
                                        ret \o recursed.ret,
                                        recursed.ignore \o recursed.ret, depth)
              ELSE ConvoyLoop(start_province, Tail(adjs), ret, ignore, depth)
       ELSE ConvoyLoop(start_province, Tail(adjs), ret, ignore, depth)

\* the body of the for loop over the adjacencies, with adjs those still to visit
ConvoyLoop(start_province, adjs, ret, ignore, depth) ==
  IF adjs = <<>> THEN [ret |-> ret, ignore |-> ignore, overflow |-> FALSE]
  ELSE
    LET adj == Head(adjs)
        adjprov == get_province(adj)
    IN IF ~Includes(ignore, adj) /\ (adjprov.water \/ start_province.water)
         THEN IF ~adjprov.water
                THEN ConvoyLoop(start_province, Tail(adjs), Append(ret, adj),
                                Append(ignore, adj), depth)
              ELSE IF get_unit(adj) # Null
                THEN LET recursed == convoy_pathfind(adjprov, ignore, depth + 1)
                     IN IF recursed.overflow THEN Overflowed
                        ELSE ConvoyLoop(start_province, Tail(adjs),
                                        ret \o recursed.ret,
                                        recursed.ignore \o recursed.ret, depth)
              ELSE ConvoyLoop(start_province, Tail(adjs), ret, ignore, depth)
       ELSE ConvoyLoop(start_province, Tail(adjs), ret, ignore, depth)

\* a variant that does not mark the start province as visited
convoy_pathfind_Unmarked(start_province, ignore, depth) ==
  IF depth > StackLimit THEN Overflowed
  ELSE ConvoyLoop(start_province, get_adjacencies_ignore_coasts(start_province.id),
                  <<>>, ignore, depth)

convoy_pathfind(start_province, ignore, depth) ==
  IF depth > StackLimit THEN Overflowed
  ELSE ConvoyLoop(start_province, get_adjacencies_ignore_coasts(start_province.id),
                  <<>>, Append(ignore, start_province.id), depth)

-----------------------------------------------------------------------------
(* get_valid_orders and get_units_movable_to (src/utils.js 820-852,        *)
(* 898-913).  Both change this.orderCache, so each operator takes the      *)
(* cache and returns the cache it leaves beside its return value.          *)

\* the value undefined
Undefined == [undefined |-> TRUE]

\* a.text, a property no order class assigns
OrderText(o) == IF "text" \in DOMAIN o THEN o.text ELSE Undefined

\* x < y of JavaScript: false when an operand is undefined
JsLess(x, y) == IF x = Undefined \/ y = Undefined THEN FALSE ELSE x < y

\* the comparator handed to sort at line 849
TextComparator(a, b) ==
  IF JsLess(OrderText(a), OrderText(b)) THEN -1
  ELSE IF JsLess(OrderText(b), OrderText(a)) THEN 1
  ELSE 0

RECURSIVE SortInsert(_, _)
SortInsert(sorted, x) ==
  IF sorted = <<>> THEN <<x>>
  ELSE IF TextComparator(x, Head(sorted)) < 0 THEN <<x>> \o sorted
  ELSE <<Head(sorted)>> \o SortInsert(Tail(sorted), x)

\* Array.prototype.sort with TextComparator (a stable sort)
RECURSIVE SortByText(_)
SortByText(orders) ==
  IF orders = <<>> THEN <<>>
  ELSE SortInsert(SortByText(SubSeq(orders, 1, Len(orders) - 1)),
                  orders[Len(orders)])

\* ends = allReachable.slice(); ends.splice(ends.indexOf(start), 1)
SpliceOut(seq, x) ==
  LET i == IndexOf(seq, x)
  IN SubSeq(seq, 1, i - 1) \o SubSeq(seq, i + 1, Len(seq))

\* lines 830-837: the Convoy orders of a fleet, start by start
RECURSIVE ConvoyOrdersLoop(_, _, _)

\* a variant that takes any unit at start for an army
ConvoyOrdersLoop_AnyUnit(province, starts, allReachable) ==
  IF starts = <<>> THEN <<>>
  ELSE
    LET start == Head(starts)
        armyUnit == get_unit(start)
        ends == SpliceOut(allReachable, start)
    IN (IF armyUnit # Null
          THEN [i \in 1..Len(ends) |-> ConvoyOrder(province, start, ends[i], 0)]
          ELSE <<>>)
       \o ConvoyOrdersLoop(province, Tail(starts), allReachable)

ConvoyOrdersLoop(province, starts, allReachable) ==
  IF starts = <<>> THEN <<>>
  ELSE
    LET start == Head(starts)
        armyUnit == get_unit(start)
        ends == SpliceOut(allReachable, start)
    IN (IF armyUnit # Null /\ armyUnit.type = unitTypeEnum.Army
          THEN [i \in 1..Len(ends) |-> ConvoyOrder(province, start, ends[i], 0)]
          ELSE <<>>)
       \o ConvoyOrdersLoop(province, Tail(starts), allReachable)

CachePush(cache, province, orders) ==
  [cache EXCEPT ![province] = @ \o orders]

OverflowedOrders == [cache |-> <<>>, ret |-> <<>>, overflow |-> TRUE]

RECURSIVE get_valid_orders(_, _, _)
RECURSIVE get_units_movable_to(_, _, _, _, _)
RECURSIVE SupportLoop(_, _, _, _)
RECURSIVE MovableLoop(_, _, _, _, _, _, _)
RECURSIVE MoveMatches(_, _, _, _)

\* a variant that counts every convoy-flagged Move without the pathfind
MoveMatches_AnyConvoy(orders, province, convoy_ignore, depth) ==
  IF orders = <<>> THEN "no"
  ELSE LET order == Head(orders)
       IN IF order.type = orderTypeEnum.move /\ order.dest = province
            THEN "yes"
            ELSE MoveMatches(Tail(orders), province, convoy_ignore, depth)

\* lines 903-908: does some order of the list move to province?  "yes", "no",
\* or "overflow" when a pathfind it had to run overflowed
MoveMatches(orders, province, convoy_ignore, depth) ==
  IF orders = <<>> THEN "no"
  ELSE
    LET order == Head(orders)
    IN IF order.type = orderTypeEnum.move /\ order.dest = province
         THEN IF ~order.isConvoy THEN "yes"
              ELSE LET found == convoy_pathfind(get_province(order.province),
                                                <<convoy_ignore>>, depth + 1)
                   IN IF found.overflow THEN "overflow"
                      ELSE IF Includes(found.ret, province) THEN "yes"
                      ELSE MoveMatches(Tail(orders), province, convoy_ignore, depth)
       ELSE MoveMatches(Tail(orders), province, convoy_ignore, depth)

\* lines 900-911: the loop over the units still to visit
MovableLoop(cache, units, province, exclude, convoy_ignore, ret, depth) ==
  IF units = <<>> THEN [cache |-> cache, ret |-> ret, overflow |-> FALSE]
  ELSE
    LET unit == Head(units)
    IN IF unit.province # province /\ unit.province # exclude
         THEN LET valid == get_valid_orders(cache, unit, depth + 1)
              IN IF valid.overflow THEN OverflowedOrders
                 ELSE LET m == MoveMatches(valid.ret, province, convoy_ignore, depth)
                      IN IF m = "overflow" THEN OverflowedOrders
                         ELSE MovableLoop(valid.cache, Tail(units), province, exclude,
                                          convoy_ignore,
                                          IF m = "yes" THEN Append(ret, unit) ELSE ret,
                                          depth)
       ELSE MovableLoop(cache, Tail(units), province, exclude, convoy_ignore, ret, depth)

get_units_movable_to(cache, province, exclude, convoy_ignore, depth) ==
  IF depth > StackLimit THEN OverflowedOrders
  ELSE MovableLoop(cache, AllUnits, province, exclude, convoy_ignore, <<>>, depth)

\* lines 839-848: the loop over the adjacencies still to visit
SupportLoop(cache, unit, adjs, depth) ==
  IF adjs = <<>> THEN [cache |-> cache, ret |-> <<>>, overflow |-> FALSE]
  ELSE
    LET adj == Head(adjs)
        adjUnit == get_unit(adj.province)
        held == IF adjUnit # Null
                  THEN CachePush(cache, unit.province,
                         <<SupportHoldOrder(unit.province, adjUnit.province, 0)>>)
                  ELSE cache
        movableTo == get_units_movable_to(held, adj.province, unit.province,
                                          unit.province, depth + 1)
    IN IF movableTo.overflow THEN OverflowedOrders
       ELSE SupportLoop(
              CachePush(movableTo.cache, unit.province,
                [i \in 1..Len(movableTo.ret) |->
                   SupportMoveOrder(unit.province, adj.province,
                                    movableTo.ret[i].province, 0)]),
              unit, Tail(adjs), depth)

\* a variant that does not flag the convoy Moves of an army
FirstOrders_Unflagged(unit, reachable) ==
  LET adjs == get_adjacencies(unit.province, unit.coast)
  IN <<HoldOrder(unit.province, 0)>>
     \o [i \in 1..Len(adjs) |->
           MoveOrder(unit.province, adjs[i].province, adjs[i].coast, FALSE, 0)]
     \o (IF unit.type = unitTypeEnum.Army
           THEN [i \in 1..Len(reachable) |->
                   MoveOrder(unit.province, reachable[i], "", FALSE, 0)]
         ELSE IF unit.coast = ""
           THEN ConvoyOrdersLoop(unit.province, reachable, reachable)
         ELSE <<>>)

\* lines 823-838: Hold, the direct Moves, and the convoy Moves of an army or
\* the Convoys of a fleet without a coast
FirstOrders(unit, reachable) ==
  LET adjs == get_adjacencies(unit.province, unit.coast)
  IN <<HoldOrder(unit.province, 0)>>
     \o [i \in 1..Len(adjs) |->
           MoveOrder(unit.province, adjs[i].province, adjs[i].coast, FALSE, 0)]
     \o (IF unit.type = unitTypeEnum.Army
           THEN [i \in 1..Len(reachable) |->
                   MoveOrder(unit.province, reachable[i], "", TRUE, 0)]
         ELSE IF unit.coast = ""
           THEN ConvoyOrdersLoop(unit.province, reachable, reachable)
         ELSE <<>>)

\* a variant that opens the list with the Hold alone and pushes the Moves
\* and Convoys after the supports
get_valid_orders_MovesLast(cache, unit, depth) ==
  IF depth > StackLimit THEN OverflowedOrders
  ELSE IF unit.province \in DOMAIN cache
    THEN [cache |-> cache, ret |-> cache[unit.province], overflow |-> FALSE]
  ELSE
    LET found == IF unit.type = unitTypeEnum.Army \/ unit.coast = ""
                   THEN convoy_pathfind(get_province(unit.province), <<>>, depth + 1)
                   ELSE [ret |-> <<>>, ignore |-> <<>>, overflow |-> FALSE]
    IN IF found.overflow THEN OverflowedOrders
       ELSE
         LET first == (unit.province :> <<HoldOrder(unit.province, 0)>>) @@ cache
             supported == SupportLoop(first, unit,
                            get_adjacencies(unit.province, unit.coast), depth)
         IN IF supported.overflow THEN OverflowedOrders
            ELSE LET sorted == [supported.cache EXCEPT
                                  ![unit.province] =
                                    SortByText(@ \o Tail(FirstOrders(unit, found.ret)))]
                 IN [cache |-> sorted, ret |-> sorted[unit.province],
                     overflow |-> FALSE]

get_valid_orders(cache, unit, depth) ==
  IF depth > StackLimit THEN OverflowedOrders
  ELSE IF unit.province \in DOMAIN cache
    THEN [cache |-> cache, ret |-> cache[unit.province], overflow |-> FALSE]
  ELSE
    LET found == IF unit.type = unitTypeEnum.Army \/ unit.coast = ""
                   THEN convoy_pathfind(get_province(unit.province), <<>>, depth + 1)
                   ELSE [ret |-> <<>>, ignore |-> <<>>, overflow |-> FALSE]
    IN IF found.overflow THEN OverflowedOrders
       ELSE
         LET first == (unit.province :> FirstOrders(unit, found.ret)) @@ cache
             supported == SupportLoop(first, unit,
                            get_adjacencies(unit.province, unit.coast), depth)
         IN IF supported.overflow THEN OverflowedOrders
            ELSE LET sorted == [supported.cache EXCEPT
                                  ![unit.province] = SortByText(@)]
                 IN [cache |-> sorted, ret |-> sorted[unit.province],
                     overflow |-> FALSE]

-----------------------------------------------------------------------------
(* The boards: a map of two land provinces (B with two coasts) and three   *)
(* water provinces, whose route list is drawn from the candidate routes,   *)
(* and a current turn state that places a bounded number of units.         *)

MaxRoutes == 4
MaxPathRoutes == 4
MaxUnits == 3

Provinces ==
  << [id |-> "A", water |-> FALSE, coasts |-> <<>>],
     [id |-> "B", water |-> FALSE, coasts |-> <<[id |-> "nc"], [id |-> "sc"]>>],
     [id |-> "W", water |-> TRUE, coasts |-> <<>>],
     [id |-> "V", water |-> TRUE, coasts |-> <<>>],
     [id |-> "U", water |-> TRUE, coasts |-> <<>>] >>

ProvinceIds == {Provinces[i].id : i \in 1..Len(Provinces)}

Route(p0, c0, p1, c1, water) ==
  [p0 |-> p0, c0 |-> c0, p1 |-> p1, c1 |-> c1, water |-> water]

\* the routes a map may hold, in the order the map lists them
CandidateRoutes ==
  << Route("A", "", "W", "", TRUE),
     Route("B", "sc", "W", "", TRUE),
     Route("W", "", "V", "", TRUE),
     Route("V", "", "B", "nc", TRUE),
     Route("V", "", "B", "sc", TRUE),
     Route("A", "", "B", "", FALSE),
     Route("V", "", "U", "", TRUE),
     Route("U", "", "W", "", TRUE) >>

\* the candidates that stay clear of the province U
NearRoutes == SubSeq(CandidateRoutes, 1, 6)
NearProvinces == SubSeq(Provinces, 1, 4)

\* the routes of the list numbered in S, in their order, from number i on
RECURSIVE PickRoutes(_, _, _)
PickRoutes(candidates, S, i) ==
  IF i > Len(candidates) THEN <<>>
  ELSE (IF i \in S THEN <<candidates[i]>> ELSE <<>>)
       \o PickRoutes(candidates, S, i + 1)

RouteLists(candidates, max) ==
  {PickRoutes(candidates, S, 1) :
     S \in {T \in SUBSET (1..Len(candidates)) : Cardinality(T) <= max}}

Unit(province, coast, type) == [province |-> province, coast |-> coast, type |-> type]

\* the units a province can hold: a fleet on water; on land an army, or a
\* fleet on one of the coasts (on the province itself when it has none)
UnitOptions(province) ==
  IF province.water THEN {Unit(province.id, "", unitTypeEnum.Fleet)}
  ELSE {Unit(province.id, "", unitTypeEnum.Army)}
       \cup (IF province.coasts = <<>>
               THEN {Unit(province.id, "", unitTypeEnum.Fleet)}
               ELSE {Unit(province.id, province.coasts[i].id, unitTypeEnum.Fleet)
                       : i \in 1..Len(province.coasts)})

\* the placements of at most k units on the provinces of the list, at most
\* one unit to a province
RECURSIVE UnitLists(_, _)
UnitLists(provinces, k) ==
  IF provinces = <<>> \/ k = 0 THEN {<<>>}
  ELSE UnitLists(Tail(provinces), k)
       \cup {<<u>> \o rest : u \in UnitOptions(Head(provinces)),
                             rest \in UnitLists(Tail(provinces), k - 1)}

\* a turn state of two nations: FRA holds the units at A, W and U, ENG the rest
TurnState(units) ==
  [nations |->
     << [id |-> "FRA",
         units |-> SelectSeq(units, LAMBDA u : u.province \in {"A", "W", "U"})],
        [id |-> "ENG",
         units |-> SelectSeq(units, LAMBDA u : u.province \notin {"A", "W", "U"})] >>]

NoCache == <<>>
NoUsers == <<>>

\* the own property playableCountryGroups of the object: absent until the
\* getter defines it (Object.defineProperty), then holding the value
NotDefined == [defined |-> FALSE]
Defined(value) == [defined |-> TRUE, value |-> value]
NoInput == [op |-> "none"]
NewGame == [op |-> "new"]

\* a GameData constructed from a map and one turn state
Constructed(candidates, maxRoutes, provinces) ==
  /\ mapInfo \in {[routes |-> routes, provinces |-> Provinces] :
                    routes \in RouteLists(candidates, maxRoutes)}
  /\ history \in {<<TurnState(units)>> : units \in UnitLists(provinces, MaxUnits)}
  /\ orderCache = NoCache
  /\ users = NoUsers
  /\ phase = phaseEnum["Order Writing"]
  /\ playableCountryGroups = NotDefined
  /\ call = NewGame

-----------------------------------------------------------------------------
(* Convoy pathfinding called on a board.                                   *)

\* the ignore lists a caller hands over: none, or one province
IgnoreLists == {<<>>} \cup {<<p>> : p \in ProvinceIds}

InitPathfind ==
  /\ Constructed(CandidateRoutes, MaxPathRoutes, Provinces)
  /\ input \in [op : {"convoy_pathfind"}, start : ProvinceIds, ignore : IgnoreLists]

ConvoyPathfind ==
  /\ input.op = "convoy_pathfind"
  /\ call = NewGame
  /\ LET found == convoy_pathfind(get_province(input.start), input.ignore, 0)
     IN call' = [op |-> "convoy_pathfind", start |-> input.start,
                 ignore |-> input.ignore, ret |-> found.ret,
                 overflow |-> found.overflow]
  /\ UNCHANGED <<users, phase, playableCountryGroups, mapInfo, history, orderCache, input>>

NextPathfind == ConvoyPathfind

SpecPathfind == InitPathfind /\ [][NextPathfind]_vars

-----------------------------------------------------------------------------
(* Order generation called on a board, unit after unit in any order.       *)

Init ==
  /\ Constructed(NearRoutes, MaxRoutes, NearProvinces)
  /\ input = NoInput

GetValidOrders ==
  \E i \in 1..Len(AllUnits) :
    LET valid == get_valid_orders(orderCache, AllUnits[i], 0)
    IN /\ orderCache' = valid.cache
       /\ call' = [op |-> "get_valid_orders", unit |-> AllUnits[i],
                   ret |-> valid.ret, overflow |-> valid.overflow]
       /\ UNCHANGED <<users, phase, playableCountryGroups, mapInfo, history, input>>

Next == GetValidOrders

Spec == Init /\ [][Next]_vars

-----------------------------------------------------------------------------
(* The order model exercised on its own: orders are constructed from       *)
(* bounded parameter sets, exported and imported.                           *)

OrderProvinces == {"A", "B", "C"}
OrderCoasts == {"", "nc"}
OrderCountries == {"FRA", "ENG"}
ResultCodes == {orderResultEnum[k] : k \in DOMAIN orderResultEnum}
UnitTypes == {unitTypeEnum[k] : k \in DOMAIN unitTypeEnum}
OrderKinds == DOMAIN orderTypeEnum

\* the constructor parameters of each kind
Params(kind) ==
  CASE kind = "cancel" -> [province : OrderProvinces]
    [] kind = "hold" -> [province : OrderProvinces, result : ResultCodes]
    [] kind = "move" -> [province : OrderProvinces, dest : OrderProvinces,
                         coast : OrderCoasts, isConvoy : BOOLEAN, result : ResultCodes]
    [] kind = "convoy" -> [province : OrderProvinces, start : OrderProvinces,
                           end : OrderProvinces, result : ResultCodes]
    [] kind = "support hold" -> [province : OrderProvinces,
                                 supporting : OrderProvinces, result : ResultCodes]
    [] kind = "support move" -> [province : OrderProvinces, supporting : OrderProvinces,
                                 from : OrderProvinces, result : ResultCodes]
    [] kind = "retreat" -> [province : OrderProvinces, dest : OrderProvinces,
                            coast : OrderCoasts, result : ResultCodes]
    [] kind = "build" -> [country : OrderCountries, province : OrderProvinces,
                          unitType : UnitTypes, coast : OrderCoasts]
    [] kind = "disband" -> [country : OrderCountries, province : OrderProvinces]
    [] kind = "pass" -> [country : OrderCountries]

\* new <Kind>Order(...parameters)
Construct(kind, p) ==
  CASE kind = "cancel" -> CancelOrder(p.province)
    [] kind = "hold" -> HoldOrder(p.province, p.result)
    [] kind = "move" -> MoveOrder(p.province, p.dest, p.coast, p.isConvoy, p.result)
    [] kind = "convoy" -> ConvoyOrder(p.province, p.start, p.end, p.result)
    [] kind = "support hold" -> SupportHoldOrder(p.province, p.supporting, p.result)
    [] kind = "support move" ->
         SupportMoveOrder(p.province, p.supporting, p.from, p.result)
    [] kind = "retreat" -> RetreatOrder(p.province, p.dest, p.coast, p.result)
    [] kind = "build" -> BuildOrder(p.country, p.province, p.unitType, p.coast)
    [] kind = "disband" -> DisbandOrder(p.country, p.province)
    [] kind = "pass" -> PassOrder(p.country)

\* wire records: any kind code, valid or not, over any subset of the keys
WireKeys == {"unit", "result", "province", "coast", "isconvoy", "start", "end",
             "supporting", "from", "dest", "country", "unitType"}
WireTypes == (-2)..9
WireValue(key) ==
  CASE key = "unit" -> "A"
    [] key = "result" -> orderResultEnum.success
    [] key = "province" -> "B"
    [] key = "coast" -> "nc"
    [] key = "isconvoy" -> TRUE
    [] key = "start" -> "B"
    [] key = "end" -> "C"
    [] key = "supporting" -> "B"
    [] key = "from" -> "C"
    [] key = "dest" -> "C"
    [] key = "country" -> "FRA"
    [] key = "unitType" -> unitTypeEnum.Fleet

WireRecord(keys, withType, type) ==
  [k \in keys \cup (IF withType THEN {"type"} ELSE {}) |->
     IF k = "type" THEN type ELSE WireValue(k)]

NoMapInfo == [routes |-> <<>>, provinces |-> <<>>]
NoHistory == <<[nations |-> <<>>]>>

\* the inputs of the order operations: the parameters of one order, of two
\* orders of one kind, or a wire record
OrderInputs ==
  UNION {
    UNION {[op : {"order"}, kind : {kind}, params : Params(kind)] : kind \in OrderKinds},
    UNION {[op : {"orders"}, kind : {kind}, pa : Params(kind), pb : Params(kind)]
             : kind \in OrderKinds},
    {[op |-> "wire", imported |-> WireRecord(keys, withType, type)]
       : keys \in SUBSET WireKeys, withType \in BOOLEAN, type \in WireTypes}
  }

InitOrder ==
  /\ mapInfo = NoMapInfo
  /\ history = NoHistory
  /\ orderCache = NoCache
  /\ users = NoUsers
  /\ phase = phaseEnum["Order Writing"]
  /\ playableCountryGroups = NotDefined
  /\ input \in OrderInputs
  /\ call = NewGame

\* construct an order, export it, and import the exported record
RoundTrip ==
  /\ input.op = "order"
  /\ call = NewGame
  /\ LET o == Construct(input.kind, input.params)
     IN call' = [op |-> "round_trip", kind |-> input.kind, params |-> input.params,
                 order |-> o, exported |-> Export(o), ret |-> import_order(Export(o))]
  /\ UNCHANGED <<users, phase, playableCountryGroups, mapInfo, history, orderCache, input>>

\* construct two orders of one kind
ConstructPair ==
  /\ input.op = "orders"
  /\ call = NewGame
  /\ call' = [op |-> "construct", kind |-> input.kind, pa |-> input.pa,
              pb |-> input.pb, a |-> Construct(input.kind, input.pa),
              b |-> Construct(input.kind, input.pb)]
  /\ UNCHANGED <<users, phase, playableCountryGroups, mapInfo, history, orderCache, input>>

\* import a wire record
ImportRecord ==
  /\ input.op = "wire"
  /\ call = NewGame
  /\ call' = [op |-> "import_order", imported |-> input.imported,
              ret |-> import_order(input.imported)]
  /\ UNCHANGED <<users, phase, playableCountryGroups, mapInfo, history, orderCache, input>>

NextOrder == RoundTrip \/ ConstructPair \/ ImportRecord

SpecOrder == InitOrder /\ [][NextOrder]_vars

-----------------------------------------------------------------------------
(* C1: for every order variant and every choice of its parameters,         *)
(* import_order(o.export()) succeeds and returns an order whose id equals  *)
(* o.id.                                                                   *)
C1_RoundTrip ==
  call.op = "round_trip" => call.ret.ok /\ call.ret.order.id = call.order.id

(* C2: two orders of one kind constructed with identical parameters have   *)
(* identical ids, and two orders of one kind that differ in a constructor  *)
(* parameter other than the adjudication result have distinct ids.         *)
C2_IdsIdentifyParameters ==
  call.op = "construct" =>
    /\ call.pa = call.pb => call.a.id = call.b.id
    /\ (\E f \in DOMAIN call.pa \ {"result"} : call.pa[f] # call.pb[f])
         => call.a.id # call.b.id

\* the keys the claim lists for each kind code
C3_Listed(type) ==
  CASE type = -1 -> {"unit"}
    [] type = 0 -> {"unit", "result"}
    [] type = 1 -> {"unit", "result", "province"}
    [] type = 4 -> {"unit", "result", "start", "end"}
    [] type = 2 -> {"unit", "result", "supporting"}
    [] type = 3 -> {"unit", "result", "supporting", "from"}
    [] type = 5 -> {"unit", "result", "dest", "coast"}
    [] type = 7 -> {"country", "province", "unitType", "coast"}
    [] type = 6 -> {"country", "province"}
    [] type = 8 -> {"country"}

(* C3: import_order(record) fails with an error exactly when record.type   *)
(* is not one of the ten kind codes or a key required for that kind is     *)
(* absent; in every other case it returns an order of the kind named by    *)
(* record.type.                                                            *)
C3_ImportFailsExactlyWhen ==
  call.op = "import_order" =>
    LET r == call.imported
        unknown == "type" \notin DOMAIN r \/ r.type \notin (-1)..8
        incomplete == ~unknown /\ ~(C3_Listed(r.type) \subseteq DOMAIN r)
    IN /\ call.ret.ok <=> ~(unknown \/ incomplete)
       /\ call.ret.ok => call.ret.order.type = r.type
       /\ ~call.ret.ok => DOMAIN call.ret = {"ok", "error"}

C3_Witness ==
  /\ call.op = "import_order"
  /\ "type" \in DOMAIN call.imported
  /\ call.imported.type = 6
  /\ call.ret.ok
  /\ call.ret.order.id = "disband-B"

C3_WitnessFails ==
  /\ call.op = "import_order"
  /\ "type" \in DOMAIN call.imported
  /\ call.imported.type = 1
  /\ "province" \notin DOMAIN call.imported
  /\ ~call.ret.ok

-----------------------------------------------------------------------------
(* Convoy pathfinding: C4, C5, C6 (under SpecPathfind).                    *)

\* some route joins the provinces p and q, whatever the coasts
Joined(p, q) ==
  \E i \in 1..Len(mapInfo.routes) :
    \/ mapInfo.routes[i].p0 = p /\ mapInfo.routes[i].p1 = q
    \/ mapInfo.routes[i].p0 = q /\ mapInfo.routes[i].p1 = p

IsWater(p) == \E i \in 1..Len(mapInfo.provinces) :
                mapInfo.provinces[i].id = p /\ mapInfo.provinces[i].water

UnitAt(p, type) ==
  \E n \in 1..Len(state.nations) : \E i \in 1..Len(state.nations[n].units) :
    state.nations[n].units[i].province = p /\ state.nations[n].units[i].type = type

FleetWater == {p \in ProvinceIds : IsWater(p) /\ UnitAt(p, unitTypeEnum.Fleet)}

\* the fleet-occupied water provinces linked to those of G through
\* fleet-occupied water provinces, G included and never leaving Allowed
RECURSIVE WaterGroup(_, _)
WaterGroup(G, Allowed) ==
  LET more == G \cup {w \in Allowed : \E g \in G : Joined(g, w)}
  IN IF more = G THEN G ELSE WaterGroup(more, Allowed)

\* the land provinces other than S next to the group of fleet-occupied water
\* provinces that touches S
ConvoyReach(S) ==
  LET group == WaterGroup({w \in FleetWater : Joined(S, w)}, FleetWater)
  IN {l \in ProvinceIds : ~IsWater(l) /\ l # S /\ \E g \in group : Joined(g, l)}

ChainMap == mapInfo.routes = <<CandidateRoutes[1], CandidateRoutes[2]>>

(* C4: for a land start province S and an empty ignore list,               *)
(* convoy_pathfind(S) returns exactly the land provinces other than S that *)
(* are adjacent to a water province of the connected group of              *)
(* fleet-occupied water provinces touching S; on the chain A - W - B it    *)
(* returns B when a fleet is at W and nothing when W is empty.             *)
C4_PathfindReach ==
  (call.op = "convoy_pathfind" /\ ~IsWater(call.start) /\ call.ignore = <<>>) =>
    /\ ~call.overflow
    /\ Range(call.ret) = ConvoyReach(call.start)
    /\ (ChainMap /\ call.start = "A") =>
         call.ret = IF UnitAt("W", unitTypeEnum.Fleet) THEN <<"B">> ELSE <<>>

C4_Witness ==
  /\ call.op = "convoy_pathfind" /\ call.start = "A" /\ call.ignore = <<>>
  /\ ChainMap
  /\ UnitAt("A", unitTypeEnum.Army) /\ UnitAt("W", unitTypeEnum.Fleet)
  /\ call.ret = <<"B">>

\* the three water provinces are joined in a ring and each holds a fleet
FleetCycle ==
  /\ Joined("W", "V") /\ Joined("V", "U") /\ Joined("U", "W")
  /\ FleetWater = {"W", "V", "U"}

(* C5: convoy_pathfind(start, ignore) terminates for every map and every   *)
(* unit placement, also when the fleet-occupied water provinces form a     *)
(* cycle: the recursion never nests deeper than the stack allows, and the  *)
(* call returns.                                                           *)
C5_PathfindTerminates ==
  call.op = "convoy_pathfind" => ~call.overflow

C5_Witness ==
  /\ call.op = "convoy_pathfind" /\ call.start = "A"
  /\ FleetCycle /\ Joined("A", "W")
  /\ ~call.overflow

(* C6: the list convoy_pathfind(start, ignore) returns never holds a       *)
(* province of the caller's ignore list, never holds the start province,   *)
(* and holds no province twice.                                            *)
C6_PathfindNoRevisit ==
  call.op = "convoy_pathfind" =>
    /\ \A i \in 1..Len(call.ret) :
         /\ ~Includes(call.ignore, call.ret[i])
         /\ call.ret[i] # call.start
    /\ \A i, j \in 1..Len(call.ret) : call.ret[i] = call.ret[j] => i = j

C6_Witness ==
  /\ call.op = "convoy_pathfind" /\ call.start = "W" /\ call.ignore = <<"B">>
  /\ Joined("W", "A") /\ Joined("W", "B") /\ Joined("W", "V") /\ Joined("V", "B")
  /\ UnitAt("V", unitTypeEnum.Fleet)
  /\ call.ret = <<"A">>

-----------------------------------------------------------------------------
(* Order generation: C7 - C10 (under Spec).                                *)

Count(seq, x) == Cardinality({i \in 1..Len(seq) : seq[i] = x})

CoastIds == {"", "nc", "sc"}

IsMove(o) == o.type = orderTypeEnum.move
IsConvoyMove(o) == o.type = orderTypeEnum.move /\ o.isConvoy
IsDirectMove(o) == o.type = orderTypeEnum.move /\ ~o.isConvoy

\* the number of routes between the places (p, c) and (q, d)
RoutesBetween(p, c, q, d) ==
  Cardinality({i \in 1..Len(mapInfo.routes) :
                 LET r == mapInfo.routes[i]
                 IN \/ r.p0 = p /\ r.c0 = c /\ r.p1 = q /\ r.c1 = d
                    \/ r.p1 = p /\ r.c1 = c /\ r.p0 = q /\ r.c0 = d})

\* the provinces directly adjacent to the place (p, c)
AdjacentProvinces(p, c) ==
  {q \in ProvinceIds : \E d \in CoastIds : RoutesBetween(p, c, q, d) > 0}

Returned_get_valid_orders == call.op = "get_valid_orders" /\ ~call.overflow

(* C7: for an army, the convoy-flagged Moves of get_valid_orders(army) are *)
(* exactly one Move(army.province, p, "", isConvoy) for each province p    *)
(* returned by convoy_pathfind(army.province), none of them to the army's  *)
(* own province; on the map A - W - B with the army at A the convoy Move   *)
(* to B is offered exactly when a fleet is at W.                           *)
C7_ConvoyMoves ==
  (Returned_get_valid_orders /\ call.unit.type = unitTypeEnum.Army) =>
    LET P == call.unit.province
        reach == convoy_pathfind(get_province(P), <<>>, 0).ret
    IN /\ \A i \in 1..Len(reach) :
            Count(call.ret, MoveOrder(P, reach[i], "", TRUE, 0)) = 1
       /\ \A i \in 1..Len(call.ret) :
            IsConvoyMove(call.ret[i]) =>
              /\ Includes(reach, call.ret[i].dest)
              /\ call.ret[i] = MoveOrder(P, call.ret[i].dest, "", TRUE, 0)
              /\ call.ret[i].dest # P
       /\ (ChainMap /\ P = "A") =>
            (Includes(call.ret, MoveOrder("A", "B", "", TRUE, 0))
               <=> UnitAt("W", unitTypeEnum.Fleet))

C7_Witness ==
  /\ Returned_get_valid_orders
  /\ call.unit = Unit("A", "", unitTypeEnum.Army)
  /\ ChainMap /\ UnitAt("W", unitTypeEnum.Fleet)
  /\ Includes(call.ret, MoveOrder("A", "B", "", TRUE, 0))

(* C8: the Moves of get_valid_orders(unit) that are not convoy-flagged are *)
(* exactly one Move(unit.province, q, c) for each route between the place  *)
(* (unit.province, unit.coast) and the place (q, c); the routes alone      *)
(* decide them, whatever units stand elsewhere.                            *)
C8_DirectMoves ==
  Returned_get_valid_orders =>
    LET P == call.unit.province
    IN /\ \A q \in ProvinceIds, c \in CoastIds :
            Count(call.ret, MoveOrder(P, q, c, FALSE, 0))
              = RoutesBetween(P, call.unit.coast, q, c)
       /\ \A i \in 1..Len(call.ret) :
            IsDirectMove(call.ret[i]) =>
              /\ call.ret[i].dest \in ProvinceIds
              /\ call.ret[i].coast \in CoastIds
              /\ call.ret[i]
                   = MoveOrder(P, call.ret[i].dest, call.ret[i].coast, FALSE, 0)

C8_Witness ==
  /\ Returned_get_valid_orders
  /\ call.unit = Unit("B", "sc", unitTypeEnum.Fleet)
  /\ UnitAt("V", unitTypeEnum.Fleet)
  /\ SelectSeq(call.ret, IsDirectMove)
       = <<MoveOrder("B", "W", "", FALSE, 0), MoveOrder("B", "V", "", FALSE, 0)>>

\* the Convoy orders of the list
ConvoysOf(orders) == {o \in Range(orders) : o.type = orderTypeEnum.convoy}

FleetWithoutCoast ==
  Returned_get_valid_orders /\ call.unit.type = unitTypeEnum.Fleet
                            /\ call.unit.coast = ""

(* C9 as stated: for a fleet with an empty coast, get_valid_orders offers  *)
(* Convoy(fleet.province, s, e) exactly for the ordered pairs of distinct  *)
(* provinces s, e returned by convoy_pathfind(fleet.province) that are     *)
(* both occupied by an army.                                               *)
C9_ConvoysBothArmies ==
  FleetWithoutCoast =>
    LET P == call.unit.province
        reach == Range(convoy_pathfind(get_province(P), <<>>, 0).ret)
    IN ConvoysOf(call.ret)
         = {ConvoyOrder(P, s, e, 0) :
              <<s, e>> \in {pair \in reach \X reach :
                              /\ pair[1] # pair[2]
                              /\ UnitAt(pair[1], unitTypeEnum.Army)
                              /\ UnitAt(pair[2], unitTypeEnum.Army)}}

(* C9 amended: for a fleet with an empty coast, get_valid_orders offers    *)
(* Convoy(fleet.province, s, e) exactly for the ordered pairs of distinct  *)
(* provinces s, e returned by convoy_pathfind(fleet.province) such that s  *)
(* is occupied by an army; e need not be occupied.                         *)
C9_ConvoysFromArmies ==
  FleetWithoutCoast =>
    LET P == call.unit.province
        reach == Range(convoy_pathfind(get_province(P), <<>>, 0).ret)
    IN ConvoysOf(call.ret)
         = {ConvoyOrder(P, s, e, 0) :
              <<s, e>> \in {pair \in reach \X reach :
                              /\ pair[1] # pair[2]
                              /\ UnitAt(pair[1], unitTypeEnum.Army)}}

C9_Witness ==
  /\ FleetWithoutCoast
  /\ call.unit.province = "W"
  /\ UnitAt("A", unitTypeEnum.Army)
  /\ ~UnitAt("B", unitTypeEnum.Army)
  /\ ConvoysOf(call.ret) = {ConvoyOrder("W", "A", "B", 0)}

\* the arguments get_units_movable_to is tried with: a province, and exclude
\* and convoy_ignore both left out, equal, or exclude alone
MovableArguments ==
  {args \in (ProvinceIds \ {"U"}) \X ((ProvinceIds \ {"U"}) \cup {""})
              \X ((ProvinceIds \ {"U"}) \cup {""}) :
     args[3] \in {args[2], ""}}

\* unit holds a Move to q that is direct or whose convoy avoids i
MovesTo(cache, unit, q, i) ==
  \E o \in Range(get_valid_orders(cache, unit, 0).ret) :
    /\ IsMove(o) /\ o.dest = q
    /\ \/ ~o.isConvoy
       \/ Includes(convoy_pathfind(get_province(unit.province), <<i>>, 0).ret, q)

(* C10: get_valid_orders(unit) contains SupportMove(unit.province, q, m)   *)
(* exactly when q is directly adjacent to the unit's place and m is the    *)
(* province of a unit returned by get_units_movable_to(q, unit.province,   *)
(* unit.province); get_units_movable_to(q, x, i) returns each unit at most *)
(* once and returns exactly the units at neither q nor x whose valid       *)
(* orders hold a Move to q that is not convoy-flagged or whose destination *)
(* is in convoy_pathfind(unit province, [i]).                              *)
C10_SupportMoves ==
  /\ Returned_get_valid_orders =>
       LET P == call.unit.province
       IN {o \in Range(call.ret) : o.type = orderTypeEnum["support move"]}
            = {SupportMoveOrder(P, qm[1], qm[2], 0) :
                 qm \in {pair \in ProvinceIds \X ProvinceIds :
                   /\ pair[1] \in AdjacentProvinces(P, call.unit.coast)
                   /\ \E u \in Range(get_units_movable_to(orderCache, pair[1],
                                                          P, P, 0).ret) :
                        u.province = pair[2]}}
  /\ \A args \in MovableArguments :
       LET movable == get_units_movable_to(orderCache, args[1], args[2], args[3], 0)
       IN /\ ~movable.overflow
          /\ \A j, k \in 1..Len(movable.ret) :
               movable.ret[j] = movable.ret[k] => j = k
          /\ Range(movable.ret)
               = {u \in Range(AllUnits) :
                    /\ u.province # args[1] /\ u.province # args[2]
                    /\ MovesTo(movable.cache, u, args[1], args[3])}

C10_Witness ==
  /\ Returned_get_valid_orders
  /\ call.unit.province = "W"
  /\ UnitAt("A", unitTypeEnum.Army) /\ UnitAt("V", unitTypeEnum.Fleet)
  /\ Includes(call.ret, SupportMoveOrder("W", "B", "A", 0))
  /\ Includes(call.ret, SupportMoveOrder("W", "B", "V", 0))

-----------------------------------------------------------------------------
(* Order generation: C11 (under Spec).                                     *)

\* some unit of the current TurnState stands in province q
Occupied(q) == \E u \in Range(AllUnits) : u.province = q

(* C11: get_valid_orders(unit) always contains Hold(unit.province), and    *)
(* contains SupportHold(unit.province, q) exactly when q is a province     *)
(* directly adjacent to the place (unit.province, unit.coast) that a unit  *)
(* of the current TurnState occupies.                                      *)
C11_HoldAndSupportHolds ==
  Returned_get_valid_orders =>
    LET P == call.unit.province
    IN /\ Includes(call.ret, HoldOrder(P, 0))
       /\ {o \in Range(call.ret) : o.type = orderTypeEnum["support hold"]}
            = {SupportHoldOrder(P, q, 0) :
                 q \in {r \in AdjacentProvinces(P, call.unit.coast) : Occupied(r)}}

C11_Witness ==
  /\ Returned_get_valid_orders
  /\ call.unit = Unit("B", "sc", unitTypeEnum.Fleet)
  /\ Joined("B", "W") /\ Joined("B", "V") /\ Joined("A", "B")
  /\ UnitAt("V", unitTypeEnum.Fleet) /\ ~Occupied("W") /\ UnitAt("A", unitTypeEnum.Army)
  /\ Includes(call.ret, HoldOrder("B", 0))
  /\ Includes(call.ret, SupportHoldOrder("B", "V", 0))
  /\ ~Includes(call.ret, SupportHoldOrder("B", "W", 0))
  /\ ~Includes(call.ret, SupportHoldOrder("B", "A", 0))

-----------------------------------------------------------------------------
(* Order generation on a game that is constructed a second time from the   *)
(* same data with its route list in another order: C12 (under SpecReload). *)

Reverse(seq) == [i \in 1..Len(seq) |-> seq[Len(seq) + 1 - i]]

Rotate(seq) == IF seq = <<>> THEN <<>> ELSE Tail(seq) \o <<Head(seq)>>

\* the same routes listed in another order
Reorderings(routes) == {Reverse(routes), Rotate(routes)} \ {routes}

InitReload ==
  /\ Constructed(NearRoutes, MaxRoutes, NearProvinces)
  /\ input = NoInput

\* new GameData(json) on the same game, the routes of the map reordered;
\* input keeps the list the first game returned last
Reload ==
  /\ input = NoInput
  /\ call.op = "get_valid_orders"
  /\ \E routes \in Reorderings(mapInfo.routes) :
       mapInfo' = [mapInfo EXCEPT !.routes = routes]
  /\ orderCache' = NoCache
  /\ input' = call
  /\ call' = NewGame
  /\ UNCHANGED <<users, phase, playableCountryGroups, history>>

NextReload == GetValidOrders \/ Reload

SpecReload == InitReload /\ [][NextReload]_vars

\* both games have returned the valid orders of the same unit
SameUnitTwice ==
  /\ call.op = "get_valid_orders" /\ ~call.overflow
  /\ input.op = "get_valid_orders" /\ ~input.overflow
  /\ call.unit = input.unit

(* C12: the list returned by get_valid_orders(unit) is ordered by a        *)
(* textual key of its orders and not by their time of construction: two    *)
(* games that differ only in the order their routes are listed in, and so  *)
(* construct the same orders in a different sequence, return the same      *)
(* list for the same unit.                                                 *)
C12_OrderIndependent ==
  SameUnitTwice => call.ret = input.ret

\* the two games return the same orders, as a set
C12_SameOrders ==
  SameUnitTwice => Range(call.ret) = Range(input.ret)

-----------------------------------------------------------------------------
(* Order generation on a game whose history grows: the adjudication step   *)
(* outside this library appends the next TurnState: C13 (under SpecTurns). *)

MaxTurnRoutes == 2
MaxTurnUnits == 2

Advanced == [op |-> "advance"]

InitTurns ==
  /\ mapInfo \in {[routes |-> routes, provinces |-> Provinces] :
                    routes \in RouteLists(NearRoutes, MaxTurnRoutes)}
  /\ history \in {<<TurnState(units)>> : units \in UnitLists(NearProvinces, MaxTurnUnits)}
  /\ orderCache = NoCache
  /\ users = NoUsers
  /\ phase = phaseEnum["Order Writing"]
  /\ playableCountryGroups = NotDefined
  /\ call = NewGame
  /\ input = NoInput

\* the adjudication step pushes a TurnState with other unit positions onto
\* history; nothing in the library touches orderCache then
Advance ==
  /\ Len(history) = 1
  /\ call.op = "get_valid_orders"
  /\ \E units \in UnitLists(NearProvinces, MaxTurnUnits) :
       /\ TurnState(units) # state
       /\ history' = Append(history, TurnState(units))
  /\ call' = Advanced
  /\ UNCHANGED <<users, phase, playableCountryGroups, mapInfo, orderCache, input>>

NextTurns == GetValidOrders \/ Advance

SpecTurns == InitTurns /\ [][NextTurns]_vars

(* C13: the per-province cache of get_valid_orders is invalidated whenever *)
(* the TurnState advances: once a new TurnState with different unit        *)
(* positions has been appended to history, get_valid_orders for a unit     *)
(* returns the orders valid in the new current TurnState, also at a        *)
(* province it was called for before.                                      *)
C13_CacheFollowsTurnState ==
  (Len(history) > 1 /\ Returned_get_valid_orders) =>
    call.ret = get_valid_orders(NoCache, call.unit, 0).ret

-----------------------------------------------------------------------------
(* Adjacency queried between two places of a map: C14 (under SpecAdjacent).*)

MaxAdjRoutes == 3

\* the candidate routes, a route from a province to itself and a route
\* between the two coasts of one province
LoopRoutes ==
  CandidateRoutes \o << Route("A", "", "A", "", FALSE),
                        Route("B", "nc", "B", "sc", TRUE) >>

PlaceIdentifier(province, coast) == [province |-> province, coast |-> coast]

\* the places of the map: every province with no coast named, B on each coast
Places ==
  {PlaceIdentifier(p, "") : p \in ProvinceIds}
    \cup {PlaceIdentifier("B", c) : c \in {"nc", "sc"}}

InitAdjacent ==
  /\ mapInfo \in {[routes |-> routes, provinces |-> Provinces] :
                    routes \in RouteLists(LoopRoutes, MaxAdjRoutes)}
  /\ history = <<TurnState(<<>>)>>
  /\ orderCache = NoCache
  /\ users = NoUsers
  /\ phase = phaseEnum["Order Writing"]
  /\ playableCountryGroups = NotDefined
  /\ call = NewGame
  /\ input \in [op : {"is_adjacent"}, p0 : Places, p1 : Places]

\* is_adjacent and get_adjacencies asked from both ends
IsAdjacent ==
  /\ input.op = "is_adjacent"
  /\ call = NewGame
  /\ call' = [op |-> "is_adjacent", p0 |-> input.p0, p1 |-> input.p1,
              forth |-> is_adjacent(input.p0, input.p1),
              back |-> is_adjacent(input.p1, input.p0),
              from0 |-> get_adjacencies(input.p0.province, input.p0.coast),
              from1 |-> get_adjacencies(input.p1.province, input.p1.coast)]
  /\ UNCHANGED <<users, phase, playableCountryGroups, mapInfo, history, orderCache, input>>

NextAdjacent == IsAdjacent

SpecAdjacent == InitAdjacent /\ [][NextAdjacent]_vars

(* C14: for every route list and every two places a and b,                 *)
(* is_adjacent(a, b) equals is_adjacent(b, a), and b is in                 *)
(* get_adjacencies(a) exactly when a is in get_adjacencies(b).             *)
C14_AdjacencySymmetric ==
  call.op = "is_adjacent" =>
    /\ call.forth = call.back
    /\ Includes(call.from0, call.p1) <=> Includes(call.from1, call.p0)

C14_Witness ==
  /\ call.op = "is_adjacent"
  /\ call.p0 = PlaceIdentifier("W", "") /\ call.p1 = PlaceIdentifier("B", "sc")
  /\ call.forth /\ call.back
  /\ Includes(call.from0, call.p1) /\ Includes(call.from1, call.p0)
  /\ ~Includes(call.from0, PlaceIdentifier("B", "nc"))

-----------------------------------------------------------------------------
(* Build orders (src/utils.js 868-879, 1179-1192): C15, C16 (under         *)
(* SpecBuild).                                                             *)

\* this.state.nations[country]
NationOf(country) == Head(SelectSeq(state.nations, LAMBDA n : n.id = country))

get_home_supply_centers(country) ==
  Head(SelectSeq(mapInfo.countries, LAMBDA c : c.id = country)).supplyCenters

\* a variant that does not ask who owns the supply centers now
get_owned_home_supply_centers_Unfiltered(country) ==
  get_home_supply_centers(country)

get_owned_home_supply_centers(country) ==
  SelectSeq(get_home_supply_centers(country),
            LAMBDA sc : Includes(NationOf(country).supplyCenters, sc))

\* if (province.coasts): an array, empty or not, is truthy; a property that
\* is left out is undefined
HasCoastsProperty(province) == "coasts" \in DOMAIN province

\* lines 870-877: the orders flatMap gets for one supply center
BuildOrdersAt(country, sc) ==
  LET province == get_province(sc)
  IN IF HasCoastsProperty(province)
       THEN [i \in 1..Len(province.coasts) |->
               BuildOrder(country, sc, unitTypeEnum.Fleet, province.coasts[i].id)]
            \o <<BuildOrder(country, sc, unitTypeEnum.Army, "")>>
     ELSE IF province.water
       THEN <<BuildOrder(country, sc, unitTypeEnum.Fleet, "")>>
     ELSE <<BuildOrder(country, sc, unitTypeEnum.Army, "")>>

RECURSIVE BuildFlatMap(_, _)
BuildFlatMap(country, scs) ==
  IF scs = <<>> THEN <<>>
  ELSE BuildOrdersAt(country, Head(scs)) \o BuildFlatMap(country, Tail(scs))

get_valid_build_orders(country) ==
  BuildFlatMap(country, get_owned_home_supply_centers(country))
    \o <<PassOrder(country)>>


MaxCenters == 2

\* a province that has no coasts carries an empty coasts array, or when bare
\* is set leaves the property out
CoastlessProvince(id, water, bare) ==
  IF bare THEN [id |-> id, water |-> water]
  ELSE [id |-> id, water |-> water, coasts |-> <<>>]

\* a landlocked province L, a province K with one coast, the province B with
\* two coasts and a water province S
BuildProvinces(bare) ==
  << CoastlessProvince("L", FALSE, bare),
     [id |-> "K", water |-> FALSE, coasts |-> <<[id |-> "ec"]>>],
     [id |-> "B", water |-> FALSE, coasts |-> <<[id |-> "nc"], [id |-> "sc"]>>],
     CoastlessProvince("S", TRUE, bare) >>

BuildProvinceIds == {"L", "K", "B", "S"}

\* the lists of at most MaxCenters different supply centers
CenterLists ==
  {<<>>} \cup UNION {{scs \in [1..n -> BuildProvinceIds] :
                        \A i, j \in 1..n : scs[i] = scs[j] => i = j}
                     : n \in 1..MaxCenters}

MapCountry(id, supplyCenters) == [id |-> id, supplyCenters |-> supplyCenters]

Country(id, supplyCenters, units) ==
  [id |-> id, supplyCenters |-> supplyCenters, units |-> units]

InitBuild ==
  /\ mapInfo \in {[routes |-> <<>>, provinces |-> BuildProvinces(bare),
                   countries |-> <<MapCountry("FRA", home), MapCountry("ENG", other)>>] :
                    bare \in BOOLEAN, home \in CenterLists,
                    other \in {<<>>, <<"B">>}}
  /\ history \in {<<[nations |-> <<Country("FRA", owned, <<>>),
                                   Country("ENG", other, <<>>)>>]>> :
                    owned \in CenterLists,
                    other \in {<<>>, <<"B">>, <<"L", "B">>}}
  /\ orderCache = NoCache
  /\ users = NoUsers
  /\ phase = phaseEnum["Order Writing"]
  /\ playableCountryGroups = NotDefined
  /\ call = NewGame
  /\ input \in [op : {"get_valid_build_orders"}, country : {"FRA", "ENG"}]

GetValidBuildOrders ==
  /\ input.op = "get_valid_build_orders"
  /\ call = NewGame
  /\ call' = [op |-> "get_valid_build_orders", country |-> input.country,
              ret |-> get_valid_build_orders(input.country)]
  /\ UNCHANGED <<users, phase, playableCountryGroups, mapInfo, history, orderCache, input>>

NextBuild == GetValidBuildOrders

SpecBuild == InitBuild /\ [][NextBuild]_vars

\* the home supply centers of the country that the country owns now
OwnedHome(country) ==
  {sc \in BuildProvinceIds :
     /\ \E c \in Range(mapInfo.countries) :
          c.id = country /\ sc \in Range(c.supplyCenters)
     /\ \E n \in Range(state.nations) :
          n.id = country /\ sc \in Range(n.supplyCenters)}

\* the coasts of the province, none when it lists none
CoastsOf(sc) ==
  LET province == get_province(sc)
  IN IF "coasts" \in DOMAIN province
       THEN {province.coasts[i].id : i \in 1..Len(province.coasts)} ELSE {}

\* the positions of the list that build a unit of the type at the province
BuildsAt(orders, sc, unitType) ==
  {i \in 1..Len(orders) : /\ orders[i].type = orderTypeEnum.build
                          /\ orders[i].province = sc
                          /\ orders[i].unitType = unitType}

(* C15: for each owned home supply center get_valid_build_orders(country)  *)
(* offers: at a province with k >= 1 coasts exactly k Fleet builds, one    *)
(* per coast, and one Army build; at a water province without coasts       *)
(* exactly one Fleet build and no Army build; at a land province without   *)
(* coasts exactly one Army build and no Fleet build.                       *)
C15_BuildsByProvinceType ==
  call.op = "get_valid_build_orders" =>
    \A sc \in OwnedHome(call.country) :
      LET fleets == BuildsAt(call.ret, sc, unitTypeEnum.Fleet)
          armies == BuildsAt(call.ret, sc, unitTypeEnum.Army)
      IN IF CoastsOf(sc) # {}
           THEN /\ Cardinality(fleets) = Cardinality(CoastsOf(sc))
                /\ \A c \in CoastsOf(sc) :
                     Count(call.ret,
                           BuildOrder(call.country, sc, unitTypeEnum.Fleet, c)) = 1
                /\ Cardinality(armies) = 1
         ELSE IF get_province(sc).water
           THEN Cardinality(fleets) = 1 /\ armies = {}
         ELSE Cardinality(armies) = 1 /\ fleets = {}

(* C16: every Build order returned by get_valid_build_orders(country) is   *)
(* at a province that is a home supply center of the country in the map    *)
(* and among the country's supplyCenters in the current TurnState, every   *)
(* such province gets at least one Build order, and the list ends with     *)
(* exactly one Pass(country), also when no such province exists.           *)
C16_BuildsAtOwnedHome ==
  call.op = "get_valid_build_orders" =>
    /\ \A i \in 1..Len(call.ret) :
         call.ret[i].type = orderTypeEnum.build =>
           call.ret[i].province \in OwnedHome(call.country)
    /\ \A sc \in OwnedHome(call.country) :
         \E i \in 1..Len(call.ret) :
           call.ret[i].type = orderTypeEnum.build /\ call.ret[i].province = sc
    /\ Len(call.ret) >= 1
    /\ call.ret[Len(call.ret)] = PassOrder(call.country)
    /\ Count(call.ret, PassOrder(call.country)) = 1
    /\ \A i \in 1..Len(call.ret) :
         call.ret[i].type \in {orderTypeEnum.build, orderTypeEnum.pass}

C16_Witness ==
  /\ call.op = "get_valid_build_orders" /\ call.country = "FRA"
  /\ get_home_supply_centers("FRA") = <<"K", "B">>
  /\ NationOf("FRA").supplyCenters = <<"L", "K">>
  /\ call.ret = << BuildOrder("FRA", "K", unitTypeEnum.Fleet, "ec"),
                   BuildOrder("FRA", "K", unitTypeEnum.Army, ""),
                   PassOrder("FRA") >>

C16_WitnessNone ==
  /\ call.op = "get_valid_build_orders" /\ call.country = "ENG"
  /\ OwnedHome("ENG") = {}
  /\ get_home_supply_centers("ENG") = <<"B">>
  /\ call.ret = <<PassOrder("ENG")>>

-----------------------------------------------------------------------------
(* Retreats (src/utils.js 859-861): C17 (under SpecRetreat).               *)

\* a variant that lets the unit retreat to where the attack came from
get_valid_retreats_TowardsAttacker(dislodgement) ==
  LET kept == SelectSeq(get_adjacencies(dislodgement.unit.province,
                                        dislodgement.unit.coast),
                        LAMBDA p : get_unit(p.province) = Null)
  IN [i \in 1..Len(kept) |->
        RetreatOrder(dislodgement.unit.province, kept[i].province, kept[i].coast, 0)]

get_valid_retreats(dislodgement) ==
  LET kept == SelectSeq(get_adjacencies(dislodgement.unit.province,
                                        dislodgement.unit.coast),
                        LAMBDA p : /\ p.province # dislodgement.from
                                   /\ get_unit(p.province) = Null)
  IN [i \in 1..Len(kept) |->
        RetreatOrder(dislodgement.unit.province, kept[i].province, kept[i].coast, 0)]

\* the dislodgements of a unit that the map can hold, attacked from a province
Dislodgements ==
  [unit : UNION {UnitOptions(NearProvinces[i]) : i \in 1..Len(NearProvinces)},
   from : Range([i \in 1..Len(NearProvinces) |-> NearProvinces[i].id]),
   country : {"FRA"}]

InitRetreat ==
  /\ Constructed(NearRoutes, MaxRoutes, NearProvinces)
  /\ input \in [op : {"get_valid_retreats"}, dislodgement : Dislodgements]

GetValidRetreats ==
  /\ input.op = "get_valid_retreats"
  /\ call = NewGame
  /\ call' = [op |-> "get_valid_retreats", dislodgement |-> input.dislodgement,
              ret |-> get_valid_retreats(input.dislodgement)]
  /\ UNCHANGED <<users, phase, playableCountryGroups, mapInfo, history, orderCache, input>>

NextRetreat == GetValidRetreats

SpecRetreat == InitRetreat /\ [][NextRetreat]_vars

(* C17: get_valid_retreats(dislodgement) returns Retreat(unit.province, q, *)
(* c) exactly for the places (q, c) adjacent to the place of the dislodged *)
(* unit with q different from dislodgement.from and q not occupied by any  *)
(* unit of the current TurnState, once for each route that leads there.    *)
C17_Retreats ==
  call.op = "get_valid_retreats" =>
    LET unit == call.dislodgement.unit
        open(q) == q # call.dislodgement.from /\ ~Occupied(q)
    IN /\ \A q \in ProvinceIds, c \in CoastIds :
            Count(call.ret, RetreatOrder(unit.province, q, c, 0))
              = IF open(q) THEN RoutesBetween(unit.province, unit.coast, q, c) ELSE 0
       /\ \A i \in 1..Len(call.ret) :
            /\ call.ret[i].type = orderTypeEnum.retreat
            /\ call.ret[i].province = unit.province
            /\ call.ret[i].dest \in ProvinceIds
            /\ call.ret[i].coast \in CoastIds
            /\ call.ret[i].result = 0

C17_Witness ==
  /\ call.op = "get_valid_retreats"
  /\ call.dislodgement.unit = Unit("W", "", unitTypeEnum.Fleet)
  /\ call.dislodgement.from = "A"
  /\ Joined("W", "A") /\ Joined("W", "B") /\ Joined("W", "V")
  /\ Occupied("V") /\ ~Occupied("B") /\ ~Occupied("A")
  /\ call.ret = <<RetreatOrder("W", "B", "sc", 0)>>

-----------------------------------------------------------------------------
(* The player configuration and the playable country groups (src/utils.js  *)
(* 651-669): C18 (under SpecGroups).                                       *)

\* this.users.length.toString()
ConfigKey == ToString(Len(users))

\* get playerConfig(): undefined when the map has no configuration for the
\* number of users
playerConfig ==
  IF ConfigKey \in DOMAIN mapInfo.playerConfigurations
    THEN mapInfo.playerConfigurations[ConfigKey]
    ELSE Undefined

\* groups.forEach(rule => { ungrouped = ungrouped.filter(c => !rule.includes(c)); })
RECURSIVE FilterRules(_, _)
FilterRules(ungrouped, rules) ==
  IF rules = <<>> THEN ungrouped
  ELSE FilterRules(SelectSeq(ungrouped, LAMBDA c : ~Includes(Head(rules), c)),
                   Tail(rules))

\* a variant that forgets to drop the eliminated countries
ComputedGroups_KeepEliminated ==
  LET ids == [i \in 1..Len(mapInfo.countries) |-> mapInfo.countries[i].id]
      groups == playerConfig.combine
      ungrouped == FilterRules(ids, groups)
  IN groups \o [i \in 1..Len(ungrouped) |-> <<ungrouped[i]>>]

\* lines 661-665: the groups the getter computes
ComputedGroups ==
  LET ids == [i \in 1..Len(mapInfo.countries) |-> mapInfo.countries[i].id]
      kept == SelectSeq(ids, LAMBDA id : ~Includes(playerConfig.eliminate, id))
      groups == playerConfig.combine
      ungrouped == FilterRules(kept, groups)
  IN groups \o [i \in 1..Len(ungrouped) |-> <<ungrouped[i]>>]

MaxRules == 2
MaxRuleLen == 2
MaxEliminated == 2
MaxSeats == 2

CountryIds == {"FRA", "ENG", "GER", "ITA"}

\* the lists of 1 to k country ids, repeats allowed
CountryLists(k) == UNION {[1..n -> CountryIds] : n \in 1..k}

\* the lists of at most k different country ids
EliminateLists(k) ==
  {<<>>} \cup {l \in CountryLists(k) : \A i, j \in 1..Len(l) : l[i] = l[j] => i = j}

PlayerConfigurations ==
  [eliminate : EliminateLists(MaxEliminated),
   combine : {<<>>} \cup UNION {[1..n -> CountryLists(MaxRuleLen)] : n \in 1..MaxRules}]

PlayerNames == <<"ann", "bob", "cat">>

\* a map of four countries with a configuration for every number of users
\* from one on, the one for MaxSeats users drawn freely
InitGroups ==
  /\ mapInfo \in
       {[routes |-> <<>>, provinces |-> <<>>,
         countries |-> <<MapCountry("FRA", <<>>), MapCountry("ENG", <<>>),
                         MapCountry("GER", <<>>), MapCountry("ITA", <<>>)>>,
         playerConfigurations |->
           [k \in {ToString(n) : n \in 1..MaxSeats} |->
              IF k = ToString(MaxSeats) THEN config
              ELSE [eliminate |-> <<"ITA">>, combine |-> <<>>]]]
          : config \in PlayerConfigurations}
  /\ history = <<TurnState(<<>>)>>
  /\ orderCache = NoCache
  /\ users \in {SubSeq(PlayerNames, 1, n) : n \in 0..MaxSeats}
  /\ phase = phaseEnum["Country Claiming"]
  /\ playableCountryGroups = NotDefined
  /\ input = NoInput
  /\ call = NewGame

\* a variant that takes the grouped countries out of the map's own list
GetPlayableCountryGroups_InPlace ==
  /\ call.op # "TypeError"
  /\ IF playableCountryGroups.defined
       THEN /\ call' = [op |-> "playableCountryGroups", cached |-> TRUE,
                        ret |-> playableCountryGroups.value]
            /\ UNCHANGED <<playableCountryGroups, mapInfo>>
     ELSE IF playerConfig = Undefined
       THEN /\ call' = [op |-> "TypeError"]
            /\ UNCHANGED <<playableCountryGroups, mapInfo>>
     ELSE /\ playableCountryGroups' = Defined(ComputedGroups)
          /\ mapInfo' = [mapInfo EXCEPT !.countries = <<>>]
          /\ call' = [op |-> "playableCountryGroups", cached |-> FALSE,
                      ret |-> ComputedGroups]
  /\ UNCHANGED <<history, orderCache, users, phase, input>>

\* get playableCountryGroups(): the own property once it is defined,
\* otherwise the getter, which throws a TypeError on an undefined playerConfig
GetPlayableCountryGroups ==
  /\ call.op # "TypeError"
  /\ IF playableCountryGroups.defined
       THEN /\ call' = [op |-> "playableCountryGroups", cached |-> TRUE,
                        ret |-> playableCountryGroups.value]
            /\ UNCHANGED playableCountryGroups
     ELSE IF playerConfig = Undefined
       THEN /\ call' = [op |-> "TypeError"]
            /\ UNCHANGED playableCountryGroups
     ELSE /\ playableCountryGroups' = Defined(ComputedGroups)
          /\ call' = [op |-> "playableCountryGroups", cached |-> FALSE,
                      ret |-> ComputedGroups]
  /\ UNCHANGED <<mapInfo, history, orderCache, users, phase, input>>

NextGroups == GetPlayableCountryGroups

SpecGroups == InitGroups /\ [][NextGroups]_vars


\* the groups of the list that hold the country
GroupsWith(groups, c) == {i \in 1..Len(groups) : Includes(groups[i], c)}

Eliminated(c) == Includes(playerConfig.eliminate, c)

\* every country that is not eliminated is in exactly one group, every
\* eliminated country in none
GroupsPartitionPlayable(groups) ==
  \A c \in CountryIds :
    Cardinality(GroupsWith(groups, c)) = IF Eliminated(c) THEN 0 ELSE 1

\* no two combine rules share a country and none names an eliminated country
CombineRulesConsistent ==
  LET rules == playerConfig.combine
  IN /\ \A i, j \in 1..Len(rules) :
          i # j => Range(rules[i]) \cap Range(rules[j]) = {}
     /\ \A i \in 1..Len(rules) : \A c \in Range(rules[i]) : ~Eliminated(c)

(* C18 as stated: for every player configuration (eliminate list and       *)
(* combine rules) selected by the number of seated users, every country of *)
(* the map that is not eliminated appears in exactly one group of          *)
(* playableCountryGroups, and no eliminated country appears in any group.  *)
C18_GroupsPartition ==
  call.op = "playableCountryGroups" => GroupsPartitionPlayable(call.ret)

(* C18 amended: for every player configuration selected by the number of   *)
(* seated users whose combine rules are pairwise disjoint and name no      *)
(* eliminated country, every country of the map that is not eliminated     *)
(* appears in exactly one group of playableCountryGroups, and no           *)
(* eliminated country appears in any group.                                *)
C18_GroupsPartitionConsistent ==
  (call.op = "playableCountryGroups" /\ CombineRulesConsistent) =>
    GroupsPartitionPlayable(call.ret)

C18_Witness ==
  /\ call.op = "playableCountryGroups" /\ ~call.cached
  /\ Len(users) = MaxSeats
  /\ playerConfig = [eliminate |-> <<"ITA">>, combine |-> <<<<"GER", "FRA">>>>]
  /\ call.ret = << <<"GER", "FRA">>, <<"ENG">> >>

-----------------------------------------------------------------------------
(* The exported record: C19 (under SpecOrder).                             *)

\* the record holds the kind code, the acting province under the key unit
\* and the adjudication result
ExportsUnitAndResult(order, exported) ==
  /\ {"type", "unit", "result"} \subseteq DOMAIN exported
  /\ exported.type = order.type
  /\ exported.unit = order.province
  /\ exported.result = order.result

AdjustKinds == {"build", "disband", "pass"}

-----------------------------------------------------------------------------
(* fleets_required (src/utils.js 949-964): C20 (under SpecFleets).  The    *)
(* array fleets is shared by every call of step, so step returns it beside *)
(* its result; a call nested deeper than StackLimit ends the computation   *)
(* with overflow set, as the engine's RangeError does.                     *)

RECURSIVE step(_, _, _, _)
RECURSIVE StepLoop(_, _, _, _, _)

\* the body of the for loop of step(p), with adjs the adjacencies still to visit
StepLoop(p, adjs, end, fleets, depth) ==
  IF adjs = <<>> THEN [ret |-> FALSE, fleets |-> fleets, overflow |-> FALSE]
  ELSE
    LET adj == Head(adjs)
    IN IF get_province(adj).water /\ get_unit(adj) # Null
         THEN LET inner == step(adj, end, Append(fleets, adj), depth + 1)
              IN IF inner.overflow \/ inner.ret THEN inner
                 ELSE StepLoop(p, Tail(adjs), end, inner.fleets, depth)
       ELSE IF adj = end /\ get_province(p).water
         THEN [ret |-> TRUE, fleets |-> fleets, overflow |-> FALSE]
       ELSE StepLoop(p, Tail(adjs), end, fleets, depth)

step(p, end, fleets, depth) ==
  IF depth > StackLimit THEN [ret |-> FALSE, fleets |-> fleets, overflow |-> TRUE]
  ELSE StepLoop(p, get_adjacencies_ignore_coasts(p), end, fleets, depth)

fleets_required(start, end) ==
  LET stepped == step(start, end, <<>>, 0)
  IN [ret |-> stepped.fleets, overflow |-> stepped.overflow]

\* the candidates and a route that puts a second sea beside A
FleetRoutes == CandidateRoutes \o <<Route("A", "", "V", "", TRUE)>>

InitFleets ==
  /\ Constructed(FleetRoutes, MaxPathRoutes, Provinces)
  /\ input \in [op : {"fleets_required"}, start : ProvinceIds, end : ProvinceIds]

FleetsRequired ==
  /\ input.op = "fleets_required"
  /\ call = NewGame
  /\ LET required == fleets_required(input.start, input.end)
     IN call' = [op |-> "fleets_required", start |-> input.start, end |-> input.end,
                 ret |-> required.ret, overflow |-> required.overflow]
  /\ UNCHANGED <<mapInfo, history, orderCache, users, phase, playableCountryGroups, input>>

NextFleets == FleetsRequired

SpecFleets == InitFleets /\ [][NextFleets]_vars

(* C20: fleets_required(start, end) terminates and returns a list for      *)
(* every well-formed map and unit placement, also when two or more         *)
(* mutually adjacent water provinces are all occupied by fleets.           *)
C20_FleetsRequiredTerminates ==
  call.op = "fleets_required" => ~call.overflow

-----------------------------------------------------------------------------
(* The water flag of a route: C21 (under Spec).                            *)

\* some route between the places (p, c) and (q, d) is open to armies
LandRouteBetween(p, c, q, d) ==
  \E i \in 1..Len(mapInfo.routes) :
    LET r == mapInfo.routes[i]
    IN /\ ~r.water
       /\ \/ r.p0 = p /\ r.c0 = c /\ r.p1 = q /\ r.c1 = d
          \/ r.p1 = p /\ r.c1 = c /\ r.p0 = q /\ r.c0 = d

(* C21: a route whose water flag is set is navigable only by fleets:       *)
(* get_valid_orders never offers an army a Move that is not convoy-flagged,*)
(* and get_valid_retreats never offers a dislodged army a Retreat, to a    *)
(* place that only routes with water set connect to the army's place.      *)
C21_WaterRoutesForFleets ==
  /\ (Returned_get_valid_orders /\ call.unit.type = unitTypeEnum.Army) =>
       \A i \in 1..Len(call.ret) :
         IsDirectMove(call.ret[i]) =>
           LandRouteBetween(call.unit.province, call.unit.coast,
                            call.ret[i].dest, call.ret[i].coast)
  /\ (call.op = "get_valid_retreats"
        /\ call.dislodgement.unit.type = unitTypeEnum.Army) =>
       \A i \in 1..Len(call.ret) :
         LandRouteBetween(call.dislodgement.unit.province,
                          call.dislodgement.unit.coast,
                          call.ret[i].dest, call.ret[i].coast)

-----------------------------------------------------------------------------
(* Retreats and adjustment orders asked for in every phase of the game     *)
(* (src/utils.js 859-888): C22 (under SpecPhase).                          *)

get_valid_disband_orders(country) ==
  LET units == NationOf(country).units
  IN [i \in 1..Len(units) |-> DisbandOrder(country, units[i].province)]

PhaseCodes == {phaseEnum[k] : k \in DOMAIN phaseEnum}

MaxPhaseRoutes == 2
MaxPhaseUnits == 2

\* the turn state of TurnState(units) with the supply centers of each nation
OwningState(units, fra, eng) ==
  [nations |->
     << Country("FRA", fra, TurnState(units).nations[1].units),
        Country("ENG", eng, TurnState(units).nations[2].units) >>]

\* a game in any phase, FRA with the home supply center A and ENG with B
InitPhase ==
  /\ mapInfo \in {[routes |-> routes, provinces |-> Provinces,
                   countries |-> <<MapCountry("FRA", <<"A">>),
                                   MapCountry("ENG", <<"B">>)>>] :
                    routes \in RouteLists(NearRoutes, MaxPhaseRoutes)}
  /\ history \in {<<OwningState(units, fra, <<"B">>)>> :
                    units \in UnitLists(NearProvinces, MaxPhaseUnits),
                    fra \in {<<>>, <<"A">>}}
  /\ orderCache = NoCache
  /\ users = NoUsers
  /\ phase \in PhaseCodes
  /\ playableCountryGroups = NotDefined
  /\ call = NewGame
  /\ input \in [op : {"get_valid_retreats"},
                dislodgement : {d \in Dislodgements : d.unit.province \in {"A", "W"}}]
               \cup [op : {"get_valid_build_orders", "get_valid_disband_orders"},
                     country : {"FRA", "ENG"}]

GetValidDisbandOrders ==
  /\ input.op = "get_valid_disband_orders"
  /\ call = NewGame
  /\ call' = [op |-> "get_valid_disband_orders", country |-> input.country,
              ret |-> get_valid_disband_orders(input.country)]
  /\ UNCHANGED <<mapInfo, history, orderCache, users, phase, playableCountryGroups, input>>

NextPhase == GetValidRetreats \/ GetValidBuildOrders \/ GetValidDisbandOrders

SpecPhase == InitPhase /\ [][NextPhase]_vars

\* the orders of the list of one of the kinds
OfKinds(orders, kinds) ==
  {i \in 1..Len(orders) : orders[i].type \in {orderTypeEnum[k] : k \in kinds}}

(* C22: order generation is phase-dependent: in a phase other than         *)
(* Retreating get_valid_retreats offers no Retreat order, and in a phase   *)
(* other than Creating/Disbanding get_valid_build_orders and               *)
(* get_valid_disband_orders offer no Build, Disband or Pass order.         *)
C22_PhaseDependent ==
  /\ (call.op = "get_valid_retreats" /\ phase # phaseEnum["Retreating"]) =>
       OfKinds(call.ret, {"retreat"}) = {}
  /\ (call.op \in {"get_valid_build_orders", "get_valid_disband_orders"}
        /\ phase # phaseEnum["Creating/Disbanding"]) =>
       OfKinds(call.ret, {"build", "disband", "pass"}) = {}

-----------------------------------------------------------------------------
(* The land neighbours of the start province: C23 (under SpecPathfind).    *)

\* the land provinces joined to p by a route that the caller did not ignore
LandNeighbours(p, ignore) ==
  {l \in ProvinceIds : l # p /\ ~IsWater(l) /\ Joined(p, l) /\ ~Includes(ignore, l)}

(* C23 as stated: convoy_pathfind records as reachable every unvisited     *)
(* land province adjacent (ignoring coasts) to the province explored, the  *)
(* start province included: a land province directly adjacent to the start *)
(* province is in the result whether the start province is land or water.  *)
C23_LandNeighboursReached ==
  (call.op = "convoy_pathfind" /\ ~call.overflow) =>
    LandNeighbours(call.start, call.ignore) \subseteq Range(call.ret)

(* C23 amended: convoy_pathfind records as reachable every unvisited land  *)
(* province adjacent (ignoring coasts) to a water province it explores, a  *)
(* water start province included; from a land start province a land        *)
(* province is in the result only if it is adjacent to a fleet-occupied    *)
(* water province, so a land neighbour of a land start is not reached      *)
(* through zero water links.                                               *)
C23_LandNeighboursOfWater ==
  (call.op = "convoy_pathfind" /\ ~call.overflow) =>
    IF IsWater(call.start)
      THEN LandNeighbours(call.start, call.ignore) \subseteq Range(call.ret)
      ELSE \A l \in Range(call.ret) : \E w \in FleetWater : Joined(w, l)

C23_Witness ==
  /\ call.op = "convoy_pathfind" /\ call.start = "A" /\ call.ignore = <<>>
  /\ Joined("A", "B") /\ Joined("A", "W") /\ Joined("W", "V")
  /\ FleetWater = {"W"}
  /\ LandNeighbours("A", <<>>) = {"B"}
  /\ call.ret = <<>>

C23_WitnessWater ==
  /\ call.op = "convoy_pathfind" /\ call.start = "W" /\ call.ignore = <<>>
  /\ LandNeighbours("W", <<>>) = {"A", "B"}
  /\ FleetWater = {}
  /\ call.ret = <<"A", "B">>

-----------------------------------------------------------------------------
(* get_valid_orders and get_units_movable_to once more (src/utils.js       *)
(* 820-852, 898-913), with a trace of what happens inside one outer call:  *)
(* building is the set of provinces whose list is under construction on    *)
(* the call stack; reads collects the lists returned for such a province,  *)
(* asked the calls of get_units_movable_to with what they returned, and    *)
(* built the provinces whose list was constructed, in order.               *)

NoTrace == [reads |-> {}, asked |-> {}, built |-> <<>>]

OverflowedTraced ==
  [cache |-> <<>>, ret |-> <<>>, overflow |-> TRUE] @@ NoTrace

Traced(result, reads, asked, built) ==
  [cache |-> result.cache, ret |-> result.ret, overflow |-> result.overflow,
   reads |-> reads, asked |-> asked, built |-> built]

RECURSIVE get_valid_orders_Traced(_, _, _, _)
RECURSIVE get_units_movable_to_Traced(_, _, _, _, _, _)
RECURSIVE SupportLoop_Traced(_, _, _, _, _)
RECURSIVE MovableLoop_Traced(_, _, _, _, _, _, _, _)

\* the element of a set of one: a `let` of the source, its value computed
\* once and read several times
Let(S) == CHOOSE x \in S : TRUE

\* lines 900-911: the loop over the units still to visit
MovableLoop_Traced(cache, units, province, exclude, convoy_ignore, ret, building, depth) ==
  IF units = <<>>
    THEN [cache |-> cache, ret |-> ret, overflow |-> FALSE] @@ NoTrace
  ELSE
    LET unit == Head(units)
    IN IF unit.province # province /\ unit.province # exclude
         THEN Let({
           IF valid.overflow THEN OverflowedTraced
           ELSE Let({
             IF m = "overflow" THEN OverflowedTraced
             ELSE Let({
               IF rest.overflow THEN OverflowedTraced
               ELSE Traced(rest, valid.reads \cup rest.reads,
                           valid.asked \cup rest.asked,
                           valid.built \o rest.built)
               : rest \in {MovableLoop_Traced(
                             valid.cache, Tail(units), province, exclude,
                             convoy_ignore,
                             IF m = "yes" THEN Append(ret, unit) ELSE ret,
                             building, depth)}})
             : m \in {MoveMatches(valid.ret, province, convoy_ignore, depth)}})
           : valid \in {get_valid_orders_Traced(cache, unit, building, depth + 1)}})
       ELSE MovableLoop_Traced(cache, Tail(units), province, exclude,
                               convoy_ignore, ret, building, depth)

get_units_movable_to_Traced(cache, province, exclude, convoy_ignore, building, depth) ==
  IF depth > StackLimit THEN OverflowedTraced
  ELSE Let({
    IF looped.overflow THEN OverflowedTraced
    ELSE Traced(looped, looped.reads,
                looped.asked
                  \cup {[province |-> province, exclude |-> exclude,
                         convoy_ignore |-> convoy_ignore, ret |-> looped.ret]},
                looped.built)
    : looped \in {MovableLoop_Traced(cache, AllUnits, province, exclude,
                                     convoy_ignore, <<>>, building, depth)}})

\* lines 839-848: the loop over the adjacencies still to visit
SupportLoop_Traced(cache, unit, adjs, building, depth) ==
  IF adjs = <<>>
    THEN [cache |-> cache, ret |-> <<>>, overflow |-> FALSE] @@ NoTrace
  ELSE
    LET adj == Head(adjs)
        adjUnit == get_unit(adj.province)
        held == IF adjUnit # Null
                  THEN CachePush(cache, unit.province,
                         <<SupportHoldOrder(unit.province, adjUnit.province, 0)>>)
                  ELSE cache
    IN Let({
         IF movableTo.overflow THEN OverflowedTraced
         ELSE Let({
           IF rest.overflow THEN OverflowedTraced
           ELSE Traced(rest, movableTo.reads \cup rest.reads,
                       movableTo.asked \cup rest.asked,
                       movableTo.built \o rest.built)
           : rest \in {SupportLoop_Traced(
                         CachePush(movableTo.cache, unit.province,
                           [i \in 1..Len(movableTo.ret) |->
                              SupportMoveOrder(unit.province, adj.province,
                                               movableTo.ret[i].province, 0)]),
                         unit, Tail(adjs), building, depth)}})
         : movableTo \in {get_units_movable_to_Traced(
                            held, adj.province, unit.province, unit.province,
                            building, depth + 1)}})

\* a variant that opens the list with the Hold alone and pushes the Moves
\* and Convoys after the supports
get_valid_orders_Traced_MovesLast(cache, unit, building, depth) ==
  IF depth > StackLimit THEN OverflowedTraced
  ELSE IF unit.province \in DOMAIN cache
    THEN [cache |-> cache, ret |-> cache[unit.province], overflow |-> FALSE,
          reads |-> IF unit.province \in building
                      THEN {[province |-> unit.province,
                             list |-> cache[unit.province]]}
                      ELSE {},
          asked |-> {}, built |-> <<>>]
  ELSE
    LET found == IF unit.type = unitTypeEnum.Army \/ unit.coast = ""
                   THEN convoy_pathfind(get_province(unit.province), <<>>, depth + 1)
                   ELSE [ret |-> <<>>, ignore |-> <<>>, overflow |-> FALSE]
    IN IF found.overflow THEN OverflowedTraced
       ELSE Let({
         IF supported.overflow THEN OverflowedTraced
         ELSE Let({
           [cache |-> sorted, ret |-> sorted[unit.province],
            overflow |-> FALSE, reads |-> supported.reads,
            asked |-> supported.asked,
            built |-> <<unit.province>> \o supported.built]
           : sorted \in {[supported.cache EXCEPT
                            ![unit.province] =
                              SortByText(@ \o Tail(FirstOrders(unit, found.ret)))]}})
         : supported \in {SupportLoop_Traced(
                            (unit.province :> <<HoldOrder(unit.province, 0)>>) @@ cache,
                            unit, get_adjacencies(unit.province, unit.coast),
                            building \cup {unit.province}, depth)}})

\* a variant that takes a list from the cache only while it is being built,
\* and builds a finished list afresh
get_valid_orders_Traced_Recomputing(cache, unit, building, depth) ==
  IF depth > StackLimit THEN OverflowedTraced
  ELSE IF unit.province \in DOMAIN cache /\ unit.province \in building
    THEN [cache |-> cache, ret |-> cache[unit.province], overflow |-> FALSE,
          reads |-> {[province |-> unit.province,
                      list |-> cache[unit.province]]},
          asked |-> {}, built |-> <<>>]
  ELSE
    LET found == IF unit.type = unitTypeEnum.Army \/ unit.coast = ""
                   THEN convoy_pathfind(get_province(unit.province), <<>>, depth + 1)
                   ELSE [ret |-> <<>>, ignore |-> <<>>, overflow |-> FALSE]
    IN IF found.overflow THEN OverflowedTraced
       ELSE Let({
         IF supported.overflow THEN OverflowedTraced
         ELSE Let({
           [cache |-> sorted, ret |-> sorted[unit.province],
            overflow |-> FALSE, reads |-> supported.reads,
            asked |-> supported.asked,
            built |-> <<unit.province>> \o supported.built]
           : sorted \in {[supported.cache EXCEPT
                            ![unit.province] = SortByText(@)]}})
         : supported \in {SupportLoop_Traced(
                            (unit.province :> FirstOrders(unit, found.ret)) @@ cache,
                            unit, get_adjacencies(unit.province, unit.coast),
                            building \cup {unit.province}, depth)}})

\* lines 820-852, with building the provinces whose lists the callers are
\* still building
get_valid_orders_Traced(cache, unit, building, depth) ==
  IF depth > StackLimit THEN OverflowedTraced
  ELSE IF unit.province \in DOMAIN cache
    THEN [cache |-> cache, ret |-> cache[unit.province], overflow |-> FALSE,
          reads |-> IF unit.province \in building
                      THEN {[province |-> unit.province,
                             list |-> cache[unit.province]]}
                      ELSE {},
          asked |-> {}, built |-> <<>>]
  ELSE
    LET found == IF unit.type = unitTypeEnum.Army \/ unit.coast = ""
                   THEN convoy_pathfind(get_province(unit.province), <<>>, depth + 1)
                   ELSE [ret |-> <<>>, ignore |-> <<>>, overflow |-> FALSE]
    IN IF found.overflow THEN OverflowedTraced
       ELSE Let({
         IF supported.overflow THEN OverflowedTraced
         ELSE Let({
           [cache |-> sorted, ret |-> sorted[unit.province],
            overflow |-> FALSE, reads |-> supported.reads,
            asked |-> supported.asked,
            built |-> <<unit.province>> \o supported.built]
           : sorted \in {[supported.cache EXCEPT
                            ![unit.province] = SortByText(@)]}})
         : supported \in {SupportLoop_Traced(
                            (unit.province :> FirstOrders(unit, found.ret)) @@ cache,
                            unit, get_adjacencies(unit.province, unit.coast),
                            building \cup {unit.province}, depth)}})

\* get_valid_orders called on a board, unit after unit in any order, the
\* trace of each call kept beside what it returned
InitReentry ==
  /\ Constructed(NearRoutes, MaxRoutes, NearProvinces)
  /\ input = NoInput

GetValidOrdersTraced ==
  \E i \in 1..Len(AllUnits) :
    LET valid == get_valid_orders_Traced(orderCache, AllUnits[i], {}, 0)
    IN /\ orderCache' = valid.cache
       /\ call' = [op |-> "get_valid_orders", unit |-> AllUnits[i],
                   ret |-> valid.ret, overflow |-> valid.overflow,
                   before |-> orderCache,
                   reads |-> valid.reads, asked |-> valid.asked,
                   built |-> valid.built]
       /\ UNCHANGED <<mapInfo, history, users, phase, playableCountryGroups, input>>

NextReentry == GetValidOrdersTraced

SpecReentry == InitReentry /\ [][NextReentry]_vars


\* ---------------------------------------------------------------------------
\* C24: whenever get_valid_orders is re-entered for a province whose list is
\* still being built, the list it returns already holds the Hold, a Move to
\* every adjacency of the unit and, for an army, a convoy-flagged Move to
\* every province convoy_pathfind reaches; and every get_units_movable_to
\* call made during the recursion returned the units it returns when it is
\* evaluated against the lists as they stand once the call is over.
C24_ReentrySeesMoves ==
  call.op = "get_valid_orders" =>
    /\ ~call.overflow
    /\ \A r \in call.reads :
         LET unit == get_unit(r.province)
             adjs == get_adjacencies(unit.province, unit.coast)
             reachable == convoy_pathfind(get_province(unit.province), <<>>, 0).ret
         IN /\ Includes(r.list, HoldOrder(unit.province, 0))
            /\ \A i \in 1..Len(adjs) :
                 Includes(r.list, MoveOrder(unit.province, adjs[i].province,
                                            adjs[i].coast, FALSE, 0))
            /\ unit.type = unitTypeEnum.Army =>
                 \A i \in 1..Len(reachable) :
                   Includes(r.list, MoveOrder(unit.province, reachable[i], "",
                                              TRUE, 0))
    /\ \A a \in call.asked :
         a.ret = get_units_movable_to(orderCache, a.province, a.exclude,
                                      a.convoy_ignore, 0).ret

\* a call during which a list was read that was still short of its supports,
\* by a get_units_movable_to call that found a unit able to move
C24_Witness ==
  /\ call.op = "get_valid_orders"
  /\ \E r \in call.reads :
       /\ Len(r.list) < Len(orderCache[r.province])
       /\ \E i \in 1..Len(r.list) :
            r.list[i].type = orderTypeEnum.move /\ r.list[i].isConvoy
  /\ \E a \in call.asked : a.ret # <<>>


\* ---------------------------------------------------------------------------
\* C25: every get_valid_orders call ends without exhausting the call stack,
\* and the list of a province is constructed at most once: a call constructs
\* no province twice and none whose list the cache already held, it leaves
\* every list the cache held as it was, and a call for a province already in
\* the cache returns that list and constructs nothing.
C25_ConstructedOnce ==
  call.op = "get_valid_orders" =>
    /\ ~call.overflow
    /\ \A i, j \in 1..Len(call.built) : call.built[i] = call.built[j] => i = j
    /\ \A i \in 1..Len(call.built) : call.built[i] \notin DOMAIN call.before
    /\ DOMAIN orderCache = DOMAIN call.before \cup Range(call.built)
    /\ \A p \in DOMAIN call.before : orderCache[p] = call.before[p]
    /\ call.unit.province \in DOMAIN call.before =>
         /\ call.ret = call.before[call.unit.province]
         /\ call.built = <<>>

\* a call that constructed the lists of two provinces, and a later call for a
\* province whose list the cache held
C25_Witness ==
  /\ call.op = "get_valid_orders"
  /\ call.unit.province \in DOMAIN call.before
  /\ Cardinality(DOMAIN orderCache) >= 2
  /\ Len(orderCache[call.unit.province]) >= 3

\* a call whose recursion constructed the list of another province
C25_WitnessNested ==
  /\ call.op = "get_valid_orders"
  /\ Len(call.built) >= 2


\* ---------------------------------------------------------------------------
\* C26: in whatever order get_valid_orders has been called on the units of a
\* fresh GameData, the list cached for a province is the list a fresh
\* GameData over the same map and turn state returns when its first call is
\* for the unit of that province.
C26_CallOrderIndependent ==
  \A p \in DOMAIN orderCache :
    orderCache[p] = get_valid_orders(NoCache, get_unit(p), 0).ret

\* a list with a SupportMove, cached by a call that was first made for
\* another unit and that found this unit's list being built
C26_Witness ==
  /\ call.op = "get_valid_orders"
  /\ \E p \in DOMAIN orderCache :
       /\ p # call.unit.province
       /\ \E i \in 1..Len(orderCache[p]) :
            /\ orderCache[p][i].type = orderTypeEnum["support move"]
            /\ orderCache[p][i].from = call.unit.province


\* ---------------------------------------------------------------------------
\* q is next to a fleet-occupied water province linked to m through
\* fleet-occupied water provinces, none of them P
LinkedAvoiding(m, q, P) ==
  LET allowed == FleetWater \ {P}
      group == WaterGroup({w \in allowed : Joined(m, w)}, allowed)
  IN \E g \in group : Joined(g, q)

\* C27: every SupportMove(P, q, m) that get_valid_orders offers the unit at P
\* has a mover at m with a direct Move to q, or an army at m that a chain of
\* fleet-occupied water provinces avoiding P links to q, which is to say
\* that convoy_pathfind from m with P ignored reaches q.
C27_NoSupportThroughOwnConvoy ==
  Returned_get_valid_orders =>
    \A o \in Range(call.ret) :
      o.type = orderTypeEnum["support move"] =>
        LET P == call.unit.province
            m == get_unit(o.from)
            q == o.supporting
        IN \/ q \in AdjacentProvinces(m.province, m.coast)
           \/ /\ m.type = unitTypeEnum.Army
              /\ LinkedAvoiding(m.province, q, P)
              /\ Includes(convoy_pathfind(get_province(m.province), <<P>>, 0).ret, q)

\* the fleet at W is asked: the army at A holds a convoy-flagged Move to B
\* and no direct one, every chain from A to B passes through W, and W is
\* not offered the support of that Move
C27_Witness ==
  /\ Returned_get_valid_orders
  /\ call.unit.province = "W"
  /\ UnitAt("A", unitTypeEnum.Army)
  /\ "A" \in DOMAIN orderCache
  /\ Includes(orderCache["A"], MoveOrder("A", "B", "", TRUE, 0))
  /\ "B" \notin AdjacentProvinces("A", "")
  /\ "B" \in AdjacentProvinces("W", "")
  /\ ~LinkedAvoiding("A", "B", "W")
  /\ ~Includes(call.ret, SupportMoveOrder("W", "B", "A", 0))

\* the fleet at V is asked: the army at A reaches B by the chain through W,
\* which avoids V, and V is offered the support of that Move
C27_WitnessOtherChain ==
  /\ Returned_get_valid_orders
  /\ call.unit.province = "V"
  /\ "B" \notin AdjacentProvinces("A", "")
  /\ LinkedAvoiding("A", "B", "V")
  /\ Includes(call.ret, SupportMoveOrder("V", "B", "A", 0))


\* ---------------------------------------------------------------------------
\* C28: the list get_valid_orders returns holds no two orders with the same
\* id.
C28_NoDuplicateIds ==
  Returned_get_valid_orders =>
    \A i, j \in 1..Len(call.ret) : call.ret[i].id = call.ret[j].id => i = j


\* ---------------------------------------------------------------------------
\* the list is a chain of fleet-occupied water provinces from start to end
IsConvoyChain(fleets, start, end) ==
  /\ fleets # <<>>
  /\ \A i \in 1..Len(fleets) : fleets[i] \in FleetWater
  /\ Joined(start, fleets[1])
  /\ \A i \in 1..(Len(fleets) - 1) : Joined(fleets[i], fleets[i + 1])
  /\ Joined(fleets[Len(fleets)], end)
  /\ \A i, j \in 1..Len(fleets) : fleets[i] = fleets[j] => i = j

\* C29: the list fleets_required(start, end) returns is one chain of
\* fleet-occupied water provinces, the first adjacent to start, each adjacent
\* to the next and the last adjacent to end, with no province off the chain
\* and none listed twice (of the calls that return a list with a province).
C29_FleetsFormChain ==
  (call.op = "fleets_required" /\ ~call.overflow /\ call.ret # <<>>) =>
    IsConvoyChain(call.ret, call.start, call.end)

\* the same of the calls that return, between two land provinces that a
\* fleet-occupied water province joins
C29_FleetsFormChainWhereConvoyExists ==
  (/\ call.op = "fleets_required" /\ ~call.overflow
   /\ ~IsWater(call.start) /\ ~IsWater(call.end) /\ call.start # call.end
   /\ call.end \in ConvoyReach(call.start)) =>
    IsConvoyChain(call.ret, call.start, call.end)


\* ---------------------------------------------------------------------------
\* The operations that generate orders, side by side on one GameData: a map
\* with routes, countries and a player configuration, a turn state with
\* units and supply centers, and two users.

\* get_units_movable_to(province, exclude, convoy_ignore) called from
\* outside: it fills orderCache through get_valid_orders
GetUnitsMovableTo ==
  /\ input.op = "get_units_movable_to"
  /\ call = NewGame
  /\ LET movable == get_units_movable_to(orderCache, input.province,
                                         input.exclude, input.convoy_ignore, 0)
     IN /\ orderCache' = movable.cache
        /\ call' = [op |-> "get_units_movable_to", province |-> input.province,
                    exclude |-> input.exclude,
                    convoy_ignore |-> input.convoy_ignore,
                    ret |-> movable.ret, overflow |-> movable.overflow]
  /\ UNCHANGED <<mapInfo, history, users, phase, playableCountryGroups, input>>

FrameInputs ==
  [op : {"get_valid_retreats"},
   dislodgement : {d \in Dislodgements :
                     d.unit.province = "A" /\ d.from \in {"B", "W"}}]
  \cup [op : {"get_valid_build_orders", "get_valid_disband_orders"},
        country : {"FRA"}]
  \cup [op : {"convoy_pathfind"}, start : {"A", "W"}, ignore : {<<>>}]
  \cup [op : {"fleets_required"}, start : {"A"}, end : {"B"}]
  \cup [op : {"get_units_movable_to"}, province : {"B"},
        exclude : {"", "W"}, convoy_ignore : {""}]
  \cup {NoInput}

InitFrame ==
  /\ mapInfo \in {[routes |-> routes, provinces |-> Provinces,
                   countries |-> <<MapCountry("FRA", <<"A">>),
                                   MapCountry("ENG", <<"B">>)>>,
                   playerConfigurations |->
                     [k \in {ToString(MaxSeats)} |->
                        [eliminate |-> <<>>, combine |-> <<>>]]] :
                    routes \in RouteLists(NearRoutes, MaxPhaseRoutes)}
  /\ history \in {<<OwningState(units, <<"A">>, <<"B">>)>> :
                    units \in UnitLists(NearProvinces, MaxPhaseUnits)}
  /\ orderCache = NoCache
  /\ users = SubSeq(PlayerNames, 1, MaxSeats)
  /\ phase = phaseEnum["Order Writing"]
  /\ playableCountryGroups = NotDefined
  /\ call = NewGame
  /\ input \in FrameInputs

NextFrame ==
  \/ GetValidOrders
  \/ GetUnitsMovableTo
  \/ ConvoyPathfind
  \/ FleetsRequired
  \/ GetValidRetreats
  \/ GetValidBuildOrders
  \/ GetValidDisbandOrders
  \/ GetPlayableCountryGroups

SpecFrame == InitFrame /\ [][NextFrame]_vars

\* C30: no step of get_valid_orders, get_units_movable_to, convoy_pathfind,
\* fleets_required, get_valid_retreats, get_valid_build_orders,
\* get_valid_disband_orders or playableCountryGroups changes the map or the
\* history (nor the users or the phase): of the state of a GameData only
\* orderCache and the cached playableCountryGroups change.
C30_MapAndHistoryUnchanged ==
  [][/\ mapInfo' = mapInfo
     /\ history' = history
     /\ users' = users
     /\ phase' = phase]_vars

\* orders were generated and the groups computed: the cache and the cached
\* groups are no longer what the constructor left
C30_Witness ==
  /\ call.op = "playableCountryGroups"
  /\ playableCountryGroups.defined
  /\ playableCountryGroups.value = <<<<"FRA">>, <<"ENG">>>>
  /\ Cardinality(DOMAIN orderCache) >= 2
  /\ Len(mapInfo.countries) = 2
  /\ Len(history) = 1

=============================================================================
